---- MODULE Spec2Model ----
(***************************************************************************)
(* Model of the alert detection and lifecycle core of AIEnergyFlow:        *)
(*   - MemStorage (src/server/storage.ts): the in-memory maps of energy    *)
(*     metrics, anomalies and alerts;                                      *)
(*   - the HTTP handlers that mutate it (src/server/routes.ts and the      *)
(*     alert routes in src/server/alert-detection-engine.ts);              *)
(*   - AIAnomalyDetectionService (src/server/ai-service.ts);               *)
(*   - AlertDetectionEngine (src/server/alert-detection-engine.ts);        *)
(*   - NotificationService (src/server/notification-service.ts).           *)
(*                                                                         *)
(* Numbers: kW and percentages are integers here; scores and confidences   *)
(* are in hundredths (0.95 is 95).  A JavaScript Map is a sequence of      *)
(* records in insertion order, each carrying its key in the field id.      *)
(***************************************************************************)
EXTENDS Integers, Sequences, FiniteSets, TLC

VARIABLES
    \* ---- MemStorage and the request/response cycle
    energyMetrics,  \* MemStorage.energyMetrics, insertion order
    anomalies,      \* MemStorage.anomalies, insertion order
    alerts,         \* MemStorage.alerts, insertion order
    now,            \* the wall clock read by new Date()
    baseStorage,    \* EnergyDataSimulator.baseStorage
    simulator,      \* EnergyDataSimulator to the thousandth, and the last reading it returned
    activeAlerts,   \* what storage.getActiveAlerts() returns to the dashboard, newest first
    raised,         \* ids of the alerts the server has created
    dismissals,     \* Dashboard.dismissAlertMutation: the state of the request for each alert id
    propAlerts,     \* AlertNotificationSystem: the alerts prop
    topBarAlert,    \* AlertNotificationSystem: useState topBarAlert
    modalAlert,     \* AlertNotificationSystem: useState modalAlert
    unreadCount,    \* AlertNotificationSystem: useState unreadCount
    processedAlerts, \* AlertNotificationSystem: useState processedAlerts
    topBarTimers,   \* setTimeout(() => setTopBarAlert(null), 30000) calls not yet fired
    effectDue,      \* a dependency of the first useEffect changed in the last render
    modalShown,     \* ids of the alerts the modal has been opened for
    inflight,       \* simulate requests suspended in the language-model call
    served,         \* number of HTTP responses sent so far
    lastResponse,   \* the last HTTP response sent
    \* ---- one call of AlertDetectionEngine.detectAnomalies
    dWindow,        \* its argument energyMetrics
    dPc,            \* where the call stands
    dRule,          \* what detectRuleBasedAnomalies returned in this call
    dAi,            \* what the language-model call did in this call
    dAnalysis,      \* how analyzeEnergyPattern ended in this call
    dAlerts,        \* its local array alerts
    dResult,        \* the list it returned
    dPasses,        \* the passes of the call that have ended, in the order they ended
    dThrew,         \* the passes of the call that ended with an exception
    dNull,          \* what of the window is null: fields of its latest reading, or "element"
    rules,          \* AlertDetectionEngine.rules
    \* ---- NotificationService
    websocketConnections,  \* NotificationService.websocketConnections, insertion order
    sockets,        \* the WebSocket objects handed to addWebSocketConnection, in that order
    dispatch        \* what the last call of sendAlertNotification was given and did

storeVars == <<energyMetrics, anomalies, alerts, now, baseStorage, simulator, inflight, served, lastResponse>>
detectVars == <<dWindow, dPc, dRule, dAi, dAnalysis, dAlerts, dResult, dPasses, dThrew, dNull, rules>>
notifyVars == <<websocketConnections, sockets, dispatch>>
clientVars == <<activeAlerts, raised, dismissals, propAlerts, topBarAlert, modalAlert, unreadCount,
                processedAlerts, topBarTimers, effectDue, modalShown>>
vars == <<energyMetrics, anomalies, alerts, now, baseStorage, simulator, inflight, served, lastResponse, dWindow, dPc, dRule, dAi, dAnalysis, dAlerts, dResult, dPasses, dThrew, dNull, rules, websocketConnections, sockets, dispatch,
         activeAlerts, raised, dismissals, propAlerts, topBarAlert, modalAlert, unreadCount,
         processedAlerts, topBarTimers, effectDue, modalShown>>

----------------------------------------------------------------------------
(* Bounds of the model. *)

\* HTTP requests answered in one behaviour.
MaxRequests == 3
\* Ticks of the millisecond clock in one behaviour.
MaxClock == 1
\* Simulate requests that may wait for the language model at the same time.
MaxInflight == 1

\* dismissedAt: null
NoDate == -1
\* anomalyId: alert.anomalyId ?? null
NoId == 0

Users == {"alice"}

----------------------------------------------------------------------------
(* Generic helpers. *)

\* Array.prototype.sort((a, b) => key(b) - key(a)): the permutation of the
\* indices of keys that sorts them descending, equal keys in their original
\* order (the sort is stable).  pos[i] is the place index i goes to.  In
\* SortDescUnstable equal keys come out reversed, as an unstable sort may
\* return them.
SortDescUnstable(keys) ==
    LET n == Len(keys)
        pos == [i \in 1..n |->
                  1 + Cardinality({j \in 1..n : keys[j] > keys[i] \/ (keys[j] = keys[i] /\ j > i)})] \o <<>>
    IN [p \in 1..n |-> CHOOSE i \in 1..n : pos[i] = p] \o <<>>

SortDesc(keys) ==
    LET n == Len(keys)
        pos == [i \in 1..n |->
                  1 + Cardinality({j \in 1..n : keys[j] > keys[i] \/ (keys[j] = keys[i] /\ j < i)})] \o <<>>
    IN [p \in 1..n |-> CHOOSE i \in 1..n : pos[i] = p] \o <<>>

\* Map.prototype.set(rec.id, rec): replaces the entry in place when the key
\* exists, appends it otherwise.
MapSet(map, rec) ==
    IF \E i \in 1..Len(map) : map[i].id = rec.id
    THEN [i \in 1..Len(map) |-> IF map[i].id = rec.id THEN rec ELSE map[i]]
    ELSE Append(map, rec)

MapHas(map, id) == \E i \in 1..Len(map) : map[i].id = id

MapGet(map, id) == map[CHOOSE i \in 1..Len(map) : map[i].id = id]

Ids(map) == {map[i].id : i \in 1..Len(map)}

\* randomUUID(): a key no entry of the map has.
randomUUID(map) == Len(map) + 1

----------------------------------------------------------------------------
(* MemStorage: alerts. *)

addAlert(map, alert, date) ==
    MapSet(map, [id |-> randomUUID(map), type |-> alert.type, timestamp |-> date,
                 dismissed |-> FALSE, dismissedAt |-> NoDate, anomalyId |-> alert.anomalyId])

getActiveAlerts(map) ==
    LET kept == SelectSeq(map, LAMBDA a : ~a.dismissed)
        perm == SortDesc([i \in 1..Len(kept) |-> kept[i].timestamp])
    IN [p \in 1..Len(kept) |-> kept[perm[p]]]

dismissAlertToggle(map, id, date) ==
    IF MapHas(map, id)
    THEN MapSet(map, [MapGet(map, id) EXCEPT !.dismissed = ~@, !.dismissedAt = date])
    ELSE map

dismissAlertDelete(map, id, date) ==
    SelectSeq(map, LAMBDA a : a.id # id)

dismissAlert(map, id, date) ==
    IF MapHas(map, id)
    THEN MapSet(map, [MapGet(map, id) EXCEPT !.dismissed = TRUE, !.dismissedAt = date])
    ELSE map

\* The status a stored alert has: MemStorage keeps the flag dismissed and no
\* other status field, and a record without one reads as active.
Status(a) == IF a.dismissed THEN "dismissed" ELSE "active"

----------------------------------------------------------------------------
(* MemStorage: energy metrics and anomalies. *)

addEnergyMetric(map, metric, date) ==
    MapSet(map, [id |-> randomUUID(map), timestamp |-> date,
                 consumption |-> metric.consumption, generation |-> metric.generation,
                 storage |-> metric.storage, gridExport |-> metric.gridExport,
                 solarEfficiency |-> metric.solarEfficiency,
                 batteryHealth |-> metric.batteryHealth])

\* hours * 60 * 60 * 1000
MsPerHour == 3600000

getRecentEnergyMetrics(map, hours, date) ==
    LET cutoff == date - hours * MsPerHour
        kept == SelectSeq(map, LAMBDA m : m.timestamp >= cutoff)
        perm == SortDesc([i \in 1..Len(kept) |-> 0 - kept[i].timestamp])
    IN [p \in 1..Len(kept) |-> kept[perm[p]]]

addAnomaly(map, anomaly, date) ==
    MapSet(map, [id |-> randomUUID(map), timestamp |-> date, type |-> anomaly.type,
                 severity |-> anomaly.severity, score |-> anomaly.score,
                 affectedComponent |-> anomaly.affectedComponent,
                 resolved |-> FALSE, resolvedAt |-> NoDate])

----------------------------------------------------------------------------
(* EnergyDataSimulator.  The hour of the day and Math.random() are inputs:   *)
(* a draw gives the consumption and generation the formulas produced, the   *)
(* storage noise and the two efficiency values.                             *)

Min(a, b) == IF a < b THEN a ELSE b
Max(a, b) == IF a > b THEN a ELSE b

\* Draws within the ranges of generateRealisticMetric: consumption in
\* 150 * [0.4, 1.2], generation in 80 * [0, 1.2], noise in (-2.5, 2.5),
\* solarEfficiency in [85, 95], batteryHealth in [95, 99].
Draws ==
    { [consumption |-> 150, generation |-> 80, noise |-> 2, solarEfficiency |-> 90, batteryHealth |-> 97] }

\* private baseStorage = 75
InitialBaseStorage == 75

\* The reading generateRealisticMetric returns; it leaves baseStorage at the
\* reading's storage.
generateRealisticMetric(base, draw) ==
    LET netPower == draw.generation - draw.consumption
        storage == Max(10, Min(95, (base + netPower \div 10) + draw.noise))
    IN [consumption |-> draw.consumption, generation |-> draw.generation,
        storage |-> storage, gridExport |-> Max(0, draw.generation - draw.consumption),
        solarEfficiency |-> draw.solarEfficiency, batteryHealth |-> draw.batteryHealth]

AnomalyTypes == {"consumption_spike", "generation_drop", "storage_drain"}

generateAnomalousMetric(base, anomalyType, draw) ==
    LET normal == generateRealisticMetric(base, draw)
    IN CASE anomalyType = "consumption_spike" ->
              [normal EXCEPT !.consumption = (normal.consumption * 5) \div 2]
         [] anomalyType = "generation_drop" ->
              [normal EXCEPT !.generation = (normal.generation * 3) \div 10, !.solarEfficiency = 45]
         [] anomalyType = "storage_drain" ->
              [normal EXCEPT !.storage = Max(5, normal.storage \div 5)]
         [] OTHER -> normal

----------------------------------------------------------------------------
(* EnergyDataSimulator with its arithmetic and its rounding.  Here kW and   *)
(* percentages are in thousandths (75 % is 75000) and Math.random() and the *)
(* sines are in thousandths of 1; a quotient is cut to the thousandth.  The *)
(* operators above are these on draws that the rounding leaves alone.       *)

\* Math.round(x * 10) / 10, for x >= 0
RoundToTenth(x) == ((x + 50) \div 100) * 100

\* Math.max(0, Math.sin((hour - 6) * Math.PI / 12))
SolarMultiplier(hour) ==
    CASE hour = 7 -> 259
      [] hour = 12 -> 1000
      [] hour = 16 -> 500
      [] OTHER -> 0

\* Math.sin((hour - 8) * Math.PI / 8)
ConsumptionSine(hour) ==
    CASE hour = 7 -> 0 - 383
      [] hour = 12 -> 1000
      [] hour = 16 -> 0
      [] hour = 20 -> 0 - 1000

\* The hours of the day sampled and the values of the five Math.random() calls.
SampleHours == {7, 12, 16, 20}
SampleDraws ==
    {[hour |-> h, generation |-> r, consumption |-> r, noise |-> n, solarEfficiency |-> n,
      batteryHealth |-> n] : h \in SampleHours, r \in {0, 995}, n \in {0, 995}}

\* The values generateRealisticMetric computes before it rounds them, and the
\* reading it returns.
generateRealisticMetricExact(base, draw) ==
    LET generation == (80 * SolarMultiplier(draw.hour) * (800 + (2 * draw.generation) \div 5)) \div 1000
        consumption == (150 * (700000 + 300 * ConsumptionSine(draw.hour) + 200 * draw.consumption)) \div 1000
        netPower == generation - consumption
        storage == Max(10000, Min(95000, base + netPower \div 10 + (draw.noise - 500) * 5))
        gridExport == Max(0, generation - consumption)
        solarEfficiency == 85000 + draw.solarEfficiency * 10
        batteryHealth == 95000 + draw.batteryHealth * 4
    IN [baseStorage |-> storage,
        metric |-> [consumption |-> RoundToTenth(consumption), generation |-> RoundToTenth(generation),
                    storage |-> RoundToTenth(storage), gridExport |-> RoundToTenth(gridExport),
                    solarEfficiency |-> RoundToTenth(solarEfficiency),
                    batteryHealth |-> RoundToTenth(batteryHealth)]]

generateAnomalousMetricExactNoFloor(normal, anomalyType) ==
    CASE anomalyType = "consumption_spike" -> [normal EXCEPT !.consumption = (normal.consumption * 5) \div 2]
      [] anomalyType = "generation_drop" ->
           [normal EXCEPT !.generation = (normal.generation * 3) \div 10, !.solarEfficiency = 45000]
      [] anomalyType = "storage_drain" -> [normal EXCEPT !.storage = normal.storage \div 5]
      [] OTHER -> normal

\* generateAnomalousMetric from the reading normal that its call of
\* generateRealisticMetric returned.
generateAnomalousMetricExact(normal, anomalyType) ==
    CASE anomalyType = "consumption_spike" -> [normal EXCEPT !.consumption = (normal.consumption * 5) \div 2]
      [] anomalyType = "generation_drop" ->
           [normal EXCEPT !.generation = (normal.generation * 3) \div 10, !.solarEfficiency = 45000]
      [] anomalyType = "storage_drain" -> [normal EXCEPT !.storage = Max(5000, normal.storage \div 5)]
      [] OTHER -> normal

\* A simulator that has returned no reading yet.
NewSimulator(base) ==
    [baseStorage |-> base, calls |-> 0, kind |-> "none",
     normal |-> [consumption |-> 0, generation |-> 0, storage |-> base, gridExport |-> 0,
                 solarEfficiency |-> 0, batteryHealth |-> 0],
     returned |-> [consumption |-> 0, generation |-> 0, storage |-> base, gridExport |-> 0,
                   solarEfficiency |-> 0, batteryHealth |-> 0]]

----------------------------------------------------------------------------
(* The dashboard in the browser: Dashboard and AlertNotificationSystem.     *)
(* React runs the effect of a render before it handles the next event, so   *)
(* the handlers and callbacks below wait for the effect that is due.        *)

\* modalAlert and topBarAlert when null
NoAlert == "null"

\* The alerts the server may create, as the summary lists them: id and type.
AlertPool ==
    { [id |-> "a1", type |-> "critical"], [id |-> "a2", type |-> "critical"],
      [id |-> "a3", type |-> "warning"], [id |-> "a4", type |-> "prediction"] }

\* Dashboard.processedAlerts: the summary's alerts with the severity the
\* notification system switches on.
DashboardAlerts(summary) ==
    [i \in 1..Len(summary) |->
        [id |-> summary[i].id,
         severity |-> IF summary[i].type = "critical" THEN "critical"
                      ELSE IF summary[i].type = "warning" THEN "warning" ELSE "info"]] \o <<>>

\* alerts.filter(alert => !processedAlerts.has(alert.id))
NewAlerts(alerts_, processed) ==
    LET Unprocessed(alert) == alert.id \notin processed
    IN SelectSeq(alerts_, Unprocessed)

\* The alerts of one severity among a list.
OfSeverity(alerts_, severity) ==
    LET Has(alert) == alert.severity = severity
    IN SelectSeq(alerts_, Has)

\* The state a run of the loop over newAlerts leaves in one of the two
\* slots: every new alert of the severity finds the slot of this render
\* empty and sets it, and the last set is the one that stays.
ShownAfter(shown, newAlerts, severity) ==
    LET mine == OfSeverity(newAlerts, severity)
    IN IF shown = NoAlert /\ mine # <<>> THEN mine[Len(mine)].id ELSE shown

\* Timers one run of the effect may leave pending at most (a further
\* setTimeout is dropped: it could only clear the top bar once more).
MaxTimers == 2

InitClient ==
    /\ activeAlerts = <<>>
    /\ raised = {}
    /\ dismissals = [a \in {p.id : p \in AlertPool} |-> "none"]
    /\ propAlerts = <<>>
    /\ topBarAlert = NoAlert
    /\ modalAlert = NoAlert
    /\ unreadCount = 0
    /\ processedAlerts = {}
    /\ topBarTimers = 0
    /\ effectDue = TRUE
    /\ modalShown = {}

----------------------------------------------------------------------------
(* AIAnomalyDetectionService. *)

\* A field the object does not have.
Undefined == "undefined"

\* v || d
Or(v, d) == IF v = Undefined THEN d ELSE v

\* { isAnomaly: false, score: 0 }
NoAnomaly ==
    [isAnomaly |-> FALSE, score |-> 0, type |-> Undefined, severity |-> Undefined,
     affectedComponent |-> Undefined]

detectRuleBasedAnomaliesStorageFirst(metric) ==
    IF metric.storage < 5
    THEN [isAnomaly |-> TRUE, score |-> 90, type |-> "storage", severity |-> "critical",
          affectedComponent |-> "battery_system"]
    ELSE IF metric.consumption > 300
    THEN [isAnomaly |-> TRUE, score |-> 95, type |-> "consumption", severity |-> "critical",
          affectedComponent |-> "grid_load"]
    ELSE NoAnomaly

detectRuleBasedAnomalies(metric) ==
    IF metric.consumption > 300
    THEN [isAnomaly |-> TRUE, score |-> 95, type |-> "consumption", severity |-> "critical",
          affectedComponent |-> "grid_load"]
    ELSE IF metric.storage < 5
    THEN [isAnomaly |-> TRUE, score |-> 90, type |-> "storage", severity |-> "critical",
          affectedComponent |-> "battery_system"]
    ELSE IF metric.solarEfficiency < 50
    THEN [isAnomaly |-> TRUE, score |-> 85, type |-> "generation", severity |-> "high",
          affectedComponent |-> "solar_panels"]
    ELSE IF metric.batteryHealth < 85
    THEN [isAnomaly |-> TRUE, score |-> 80, type |-> "device_fault", severity |-> "medium",
          affectedComponent |-> "battery_system"]
    ELSE NoAnomaly

\* What the language-model call did: it threw (transport or service error, or
\* JSON.parse rejected the content), or it answered with the parsed object
\* reply.
AIReplies ==
    { [isAnomaly |-> FALSE, score |-> 10, type |-> Undefined, severity |-> Undefined,
       affectedComponent |-> Undefined],
      [isAnomaly |-> TRUE, score |-> 150, type |-> "generation", severity |-> "medium",
       affectedComponent |-> "solar_panels"],
      [isAnomaly |-> TRUE, score |-> 70, type |-> Undefined, severity |-> "low",
       affectedComponent |-> Undefined] }

AIOutcomes ==
    {[threw |-> TRUE, reply |-> NoAnomaly]} \cup {[threw |-> FALSE, reply |-> r] : r \in AIReplies}

\* The outcome recorded for a call in which the language model was not asked.
NotAsked == [threw |-> FALSE, reply |-> NoAnomaly]

\* The object performAIAnalysis builds from the parsed reply.
performAIAnalysis(result) ==
    [isAnomaly |-> result.isAnomaly, score |-> Min(100, Max(0, result.score)),
     type |-> result.type, severity |-> result.severity,
     affectedComponent |-> result.affectedComponent]

\* analyzeEnergyPattern reaches the language-model call.
CallsAIWheneverNonEmpty(metrics) == Len(metrics) # 0

CallsAI(metrics) ==
    /\ Len(metrics) # 0
    /\ ~detectRuleBasedAnomalies(metrics[Len(metrics)]).isAnomaly

\* What analyzeEnergyPattern does when the language-model call, if made, ended
\* as ai: threw says whether an exception left it, value is what it returned.
analyzeEnergyPatternRethrow(metrics, ai) ==
    IF Len(metrics) = 0
    THEN [threw |-> FALSE, value |-> NoAnomaly]
    ELSE IF detectRuleBasedAnomalies(metrics[Len(metrics)]).isAnomaly
    THEN [threw |-> FALSE, value |-> detectRuleBasedAnomalies(metrics[Len(metrics)])]
    ELSE IF ai.threw
    THEN [threw |-> TRUE, value |-> NoAnomaly]
    ELSE [threw |-> FALSE, value |-> performAIAnalysis(ai.reply)]

analyzeEnergyPattern(metrics, ai) ==
    IF Len(metrics) = 0
    THEN [threw |-> FALSE, value |-> NoAnomaly]
    ELSE IF detectRuleBasedAnomalies(metrics[Len(metrics)]).isAnomaly
    THEN [threw |-> FALSE, value |-> detectRuleBasedAnomalies(metrics[Len(metrics)])]
    ELSE IF ai.threw
    THEN [threw |-> FALSE, value |-> NoAnomaly]
    ELSE [threw |-> FALSE, value |-> performAIAnalysis(ai.reply)]

----------------------------------------------------------------------------
(* AlertDetectionEngine.  A detection result keeps the fields the engine    *)
(* reads again (type, severity, affectedComponent), its confidence, and of  *)
(* its metadata the detectionMethod and the ruleId.                         *)

mapAISeverityToAlertSeverity(aiSeverity) ==
    CASE aiSeverity = "critical" -> "critical"
      [] aiSeverity = "high" -> "critical"
      [] aiSeverity = "medium" -> "warning"
      [] aiSeverity = "low" -> "info"
      [] OTHER -> "warning"

mapAITypeToAlertType(aiType) ==
    IF aiType \in {"consumption", "generation", "storage", "device_fault"} THEN aiType ELSE "anomaly"

\* performAIDetection once analyzeEnergyPattern ended as analysis.
aiAlerts(analysis) ==
    IF ~analysis.threw /\ analysis.value.isAnomaly
    THEN << [severity |-> mapAISeverityToAlertSeverity(Or(analysis.value.severity, "medium")),
             type |-> mapAITypeToAlertType(Or(analysis.value.type, "unknown")),
             confidence |-> analysis.value.score,
             affectedComponent |-> analysis.value.affectedComponent,
             detectionMethod |-> "ai_analysis", ruleId |-> Undefined] >>
    ELSE <<>>

performAIDetection(metrics, ai) == aiAlerts(analyzeEnergyPattern(metrics, ai))

\* initializeDefaultRules.  nameWords holds the words of the rule's name that
\* inferTypeFromRule and inferComponentFromRule look for.
DefaultRules ==
    << [id |-> "consumption-spike", nameWords |-> {"consumption"}, severity |-> "critical",
        conditions |-> <<[metric |-> "consumption", operator |-> ">", value |-> 250]>>,
        enabled |-> TRUE],
       [id |-> "battery-critical", nameWords |-> {"battery"}, severity |-> "critical",
        conditions |-> <<[metric |-> "storage", operator |-> "<", value |-> 15]>>,
        enabled |-> TRUE],
       [id |-> "solar-degradation", nameWords |-> {"solar"}, severity |-> "warning",
        conditions |-> <<[metric |-> "solarEfficiency", operator |-> "<", value |-> 70]>>,
        enabled |-> TRUE] >>

evaluateCondition(condition, energyMetrics_) ==
    IF Len(energyMetrics_) = 0 THEN FALSE
    ELSE IF condition.metric \notin {"consumption", "generation", "storage", "solarEfficiency", "batteryHealth"}
    THEN FALSE
    ELSE LET latest == energyMetrics_[Len(energyMetrics_)]
             value == CASE condition.metric = "consumption" -> latest.consumption
                        [] condition.metric = "generation" -> latest.generation
                        [] condition.metric = "storage" -> latest.storage
                        [] condition.metric = "solarEfficiency" -> latest.solarEfficiency
                        [] condition.metric = "batteryHealth" -> latest.batteryHealth
         IN CASE condition.operator = ">" -> value > condition.value
              [] condition.operator = "<" -> value < condition.value
              [] condition.operator = ">=" -> value >= condition.value
              [] condition.operator = "<=" -> value <= condition.value
              [] condition.operator = "==" -> value = condition.value
              [] condition.operator = "!=" -> value # condition.value
              [] OTHER -> FALSE

evaluateRuleAnyCondition(rule, energyMetrics_) ==
    \E c \in 1..Len(rule.conditions) : evaluateCondition(rule.conditions[c], energyMetrics_)

evaluateRule(rule, energyMetrics_) ==
    \A c \in 1..Len(rule.conditions) : evaluateCondition(rule.conditions[c], energyMetrics_)

inferTypeFromRule(rule) ==
    IF "consumption" \in rule.nameWords THEN "consumption"
    ELSE IF "battery" \in rule.nameWords \/ "storage" \in rule.nameWords THEN "storage"
    ELSE IF "solar" \in rule.nameWords \/ "generation" \in rule.nameWords THEN "generation"
    ELSE IF "device" \in rule.nameWords \/ "fault" \in rule.nameWords THEN "device_fault"
    ELSE "system_health"

inferComponentFromRule(rule) ==
    IF "consumption" \in rule.nameWords THEN "grid_load"
    ELSE IF "battery" \in rule.nameWords THEN "battery_system"
    ELSE IF "solar" \in rule.nameWords THEN "solar_panels"
    ELSE "system"

createAlertFromRule(rule) ==
    [severity |-> rule.severity, type |-> inferTypeFromRule(rule), confidence |-> 90,
     affectedComponent |-> inferComponentFromRule(rule),
     detectionMethod |-> "rule_based", ruleId |-> rule.id]

RECURSIVE RuleLoop(_, _, _)
RuleLoop(rules_, energyMetrics_, k) ==
    IF k > Len(rules_) THEN <<>>
    ELSE (IF rules_[k].enabled /\ evaluateRule(rules_[k], energyMetrics_)
          THEN <<createAlertFromRule(rules_[k])>> ELSE <<>>)
         \o RuleLoop(rules_, energyMetrics_, k + 1)

performRuleDetection(rules_, energyMetrics_) == RuleLoop(rules_, energyMetrics_, 1)

ThresholdAlert(severity, type, confidence, component) ==
    [severity |-> severity, type |-> type, confidence |-> confidence,
     affectedComponent |-> component, detectionMethod |-> "threshold", ruleId |-> Undefined]

performThresholdDetectionFirstMatch(energyMetrics_) ==
    IF Len(energyMetrics_) = 0 THEN <<>>
    ELSE LET latest == energyMetrics_[Len(energyMetrics_)]
         IN IF latest.consumption > 300
            THEN <<ThresholdAlert("critical", "consumption", 95, "grid_load")>>
            ELSE IF latest.storage < 10
            THEN <<ThresholdAlert("critical", "storage", 98, "battery_system")>>
            ELSE IF latest.solarEfficiency < 50
            THEN <<ThresholdAlert("warning", "generation", 85, "solar_panels")>>
            ELSE IF latest.batteryHealth < 85
            THEN <<ThresholdAlert("warning", "device_fault", 80, "battery_system")>>
            ELSE <<>>

performThresholdDetection(energyMetrics_) ==
    IF Len(energyMetrics_) = 0 THEN <<>>
    ELSE LET latest == energyMetrics_[Len(energyMetrics_)]
         IN (IF latest.consumption > 300
             THEN <<ThresholdAlert("critical", "consumption", 95, "grid_load")>> ELSE <<>>)
            \o (IF latest.storage < 10
                THEN <<ThresholdAlert("critical", "storage", 98, "battery_system")>> ELSE <<>>)
            \o (IF latest.solarEfficiency < 50
                THEN <<ThresholdAlert("warning", "generation", 85, "solar_panels")>> ELSE <<>>)
            \o (IF latest.batteryHealth < 85
                THEN <<ThresholdAlert("warning", "device_fault", 80, "battery_system")>> ELSE <<>>)

\* rate = (last - first) / first compared with pct / 100, for first >= 0.  A
\* first of 0 makes the rate Infinity, -Infinity or NaN.
RateAbove(first, last, pct) ==
    IF first = 0 THEN last > 0 ELSE (last - first) * 100 > pct * first

RateBelow(first, last, pct) ==
    IF first = 0 THEN last < 0 ELSE (last - first) * 100 < pct * first

\* analyzeTrend: the rate is kept as the pair it is computed from; a series
\* shorter than 2 has rate 0.
analyzeTrend(data) ==
    IF Len(data) < 2
    THEN [isIncreasing |-> FALSE, isDecreasing |-> FALSE, first |-> 1, last |-> 1]
    ELSE [isIncreasing |-> RateAbove(data[1], data[Len(data)], 5),
          isDecreasing |-> RateBelow(data[1], data[Len(data)], -5),
          first |-> data[1], last |-> data[Len(data)]]

\* if (metrics.length < 10) return alerts
MinTrendWindow == 10

PatternAlert(type, confidence, component) ==
    [severity |-> "warning", type |-> type, confidence |-> confidence,
     affectedComponent |-> component, detectionMethod |-> "pattern_analysis", ruleId |-> Undefined]

performPatternAnalysisAnyLength(metrics) ==
    LET consumptionTrend == analyzeTrend([i \in 1..Len(metrics) |-> metrics[i].consumption])
        generationTrend == analyzeTrend([i \in 1..Len(metrics) |-> metrics[i].generation])
    IN (IF consumptionTrend.isIncreasing
           /\ RateAbove(consumptionTrend.first, consumptionTrend.last, 10)
        THEN <<PatternAlert("consumption", 75, "grid_load")>> ELSE <<>>)
       \o (IF generationTrend.isDecreasing
              /\ RateBelow(generationTrend.first, generationTrend.last, -15)
           THEN <<PatternAlert("generation", 80, "solar_panels")>> ELSE <<>>)

performPatternAnalysis(metrics) ==
    IF Len(metrics) < MinTrendWindow THEN <<>>
    ELSE LET consumptionTrend == analyzeTrend([i \in 1..Len(metrics) |-> metrics[i].consumption])
             generationTrend == analyzeTrend([i \in 1..Len(metrics) |-> metrics[i].generation])
         IN (IF consumptionTrend.isIncreasing
                /\ RateAbove(consumptionTrend.first, consumptionTrend.last, 10)
             THEN <<PatternAlert("consumption", 75, "grid_load")>> ELSE <<>>)
            \o (IF generationTrend.isDecreasing
                   /\ RateBelow(generationTrend.first, generationTrend.last, -15)
                THEN <<PatternAlert("generation", 80, "solar_panels")>> ELSE <<>>)

\* `${alert.type}-${alert.severity}-${alert.affectedComponent}`
DedupKey(alert) == <<alert.type, alert.severity, alert.affectedComponent>>

\* const severityOrder = { critical: 3, warning: 2, info: 1 }
severityOrder(severity) ==
    CASE severity = "critical" -> 3
      [] severity = "warning" -> 2
      [] severity = "info" -> 1

FilterUnseenKeepLast(list) ==
    LET keep == {i \in 1..Len(list) : \A j \in (i + 1)..Len(list) : DedupKey(list[j]) # DedupKey(list[i])}
        F[i \in 0..Len(list)] ==
            IF i = 0 THEN <<>>
            ELSE IF i \in keep THEN Append(F[i - 1], list[i]) ELSE F[i - 1]
    IN F[Len(list)]

FilterUnseenAdjacent(list) ==
    LET keep == {i \in 1..Len(list) : i = 1 \/ DedupKey(list[i - 1]) # DedupKey(list[i])}
        F[i \in 0..Len(list)] ==
            IF i = 0 THEN <<>>
            ELSE IF i \in keep THEN Append(F[i - 1], list[i]) ELSE F[i - 1]
    IN F[Len(list)]

\* alerts.filter with the Set seen: an element stays when no earlier element
\* has its key.
FilterUnseen(list) ==
    LET keep == {i \in 1..Len(list) : \A j \in 1..(i - 1) : DedupKey(list[j]) # DedupKey(list[i])}
        F[i \in 0..Len(list)] ==
            IF i = 0 THEN <<>>
            ELSE IF i \in keep THEN Append(F[i - 1], list[i]) ELSE F[i - 1]
    IN F[Len(list)]

deduplicateAndPrioritizeAlerts(list) ==
    LET unique == FilterUnseen(list)
        perm == SortDesc([i \in 1..Len(unique) |-> severityOrder(unique[i].severity)])
    IN [p \in 1..Len(unique) |-> unique[perm[p]]]

----------------------------------------------------------------------------
(* NotificationService.  An alert is dispatched on the channels chosen for  *)
(* its severity.  A send is a call of sendEmail, sendSMS, sendPush or       *)
(* ws.send; the pairs <<channel, recipient>> in fails are the sends that    *)
(* throw.  The channels run concurrently; the model lists their attempts    *)
(* and records channel after channel, and no property reads the order       *)
(* across channels.                                                         *)

\* Array.prototype.includes
Includes(list, x) == \E i \in 1..Len(list) : list[i] = x

determineNotificationChannelsWarningSms(severity, requestedChannels) ==
    (IF Includes(requestedChannels, "dashboard") THEN <<"dashboard">> ELSE <<>>)
    \o (IF Includes(requestedChannels, "websocket") THEN <<"websocket">> ELSE <<>>)
    \o (CASE severity = "critical" -> <<"email", "push">>
          [] severity = "warning" -> <<"email", "sms", "push">>
          [] severity = "info" -> <<"push">>
          [] OTHER -> <<>>)

determineNotificationChannels(severity, requestedChannels) ==
    (IF Includes(requestedChannels, "dashboard") THEN <<"dashboard">> ELSE <<>>)
    \o (IF Includes(requestedChannels, "websocket") THEN <<"websocket">> ELSE <<>>)
    \o (CASE severity = "critical" -> <<"email", "sms", "push">>
          [] severity = "warning" -> <<"email", "push">>
          [] severity = "info" -> <<"push">>
          [] OTHER -> <<>>)

\* initializeDefaultRecipients
DefaultRecipients ==
    << [userId |-> "admin", email |-> "admin@energymgmt.com", phone |-> "+1234567890",
        preferences |-> [email |-> TRUE, sms |-> TRUE, push |-> TRUE, dashboard |-> TRUE]],
       [userId |-> "operator", email |-> "operator@energymgmt.com", phone |-> "+1234567891",
        preferences |-> [email |-> TRUE, sms |-> FALSE, push |-> TRUE, dashboard |-> TRUE]] >>

\* The get...Recipients methods walk this.recipients in the order of the Map
\* and push the address of every recipient that qualifies.
getEmailRecipients(recipients, severity) ==
    LET chosen == SelectSeq(recipients,
                            LAMBDA r : r.email # Undefined /\ r.preferences.email
                                       /\ severity \in {"critical", "warning"})
    IN [i \in 1..Len(chosen) |-> chosen[i].email]

getSMSRecipients(recipients) ==
    LET chosen == SelectSeq(recipients, LAMBDA r : r.phone # Undefined /\ r.preferences.sms)
    IN [i \in 1..Len(chosen) |-> chosen[i].phone]

getPushRecipients(recipients, severity) ==
    LET chosen == SelectSeq(recipients, LAMBDA r : r.preferences.push)
    IN [i \in 1..Len(chosen) |-> chosen[i].userId]

\* recordNotification(alertId, channel, status, sentAt, recipient)
NotificationRecord(channel, recipient, status) ==
    [channel |-> channel, recipient |-> recipient, status |-> status]

Attempt(channel, recipient) == [channel |-> channel, recipient |-> recipient]

NoDispatch == [attempts |-> <<>>, records |-> <<>>]

\* for (const recipient of recipients) { try { send; record sent } catch {
\* record failed } }
SendEachStopsAtFailure(channel, to, fails) ==
    LET firstFailure == IF \E i \in 1..Len(to) : <<channel, to[i]>> \in fails
                        THEN CHOOSE i \in 1..Len(to) :
                               /\ <<channel, to[i]>> \in fails
                               /\ \A j \in 1..(i - 1) : <<channel, to[j]>> \notin fails
                        ELSE Len(to)
    IN [attempts |-> [i \in 1..firstFailure |-> Attempt(channel, to[i])],
        records |-> [i \in 1..firstFailure |->
                       NotificationRecord(channel, to[i],
                                          IF <<channel, to[i]>> \in fails THEN "failed" ELSE "sent")]]

SendEach(channel, to, fails) ==
    [attempts |-> [i \in 1..Len(to) |-> Attempt(channel, to[i])],
     records |-> [i \in 1..Len(to) |->
                    NotificationRecord(channel, to[i],
                                       IF <<channel, to[i]>> \in fails THEN "failed" ELSE "sent")]]

sendDashboardNotification ==
    [attempts |-> <<Attempt("dashboard", Undefined)>>,
     records |-> <<NotificationRecord("dashboard", Undefined, "sent")>>]

sendEmailNotification(recipients, severity, fails) ==
    SendEach("email", getEmailRecipients(recipients, severity), fails)

sendSMSNotification(recipients, severity, fails) ==
    IF severity # "critical" THEN NoDispatch
    ELSE SendEach("sms", getSMSRecipients(recipients), fails)

sendPushNotification(recipients, severity, fails) ==
    SendEach("push", getPushRecipients(recipients, severity), fails)

\* Every open connection gets the message; a send that throws is logged and
\* not recorded.
sendWebSocketNotification(connections, fails) ==
    LET open == SelectSeq(connections, LAMBDA c : c.readyState = "OPEN")
        sent == SelectSeq(open, LAMBDA c : <<"websocket", c.id>> \notin fails)
    IN [attempts |-> [i \in 1..Len(open) |-> Attempt("websocket", open[i].id)],
        records |-> [i \in 1..Len(sent) |-> NotificationRecord("websocket", sent[i].id, "sent")]]

sendToChannel(recipients, connections, severity, channel, fails) ==
    CASE channel = "dashboard" -> sendDashboardNotification
      [] channel = "email" -> sendEmailNotification(recipients, severity, fails)
      [] channel = "sms" -> sendSMSNotification(recipients, severity, fails)
      [] channel = "push" -> sendPushNotification(recipients, severity, fails)
      [] channel = "websocket" -> sendWebSocketNotification(connections, fails)
      [] OTHER -> NoDispatch

\* sendAlertNotification: the channels chosen, and what sendToChannel did on
\* each of them.  Promise.allSettled waits for all of them and never rejects.
sendAlertNotification(recipients, connections, severity, channels, fails) ==
    LET chosen == determineNotificationChannels(severity, channels)
        D[i \in 0..Len(chosen)] ==
            IF i = 0 THEN NoDispatch
            ELSE LET d == sendToChannel(recipients, connections, severity, chosen[i], fails)
                 IN [attempts |-> D[i - 1].attempts \o d.attempts,
                     records |-> D[i - 1].records \o d.records]
    IN [channels |-> chosen, attempts |-> D[Len(chosen)].attempts,
        records |-> D[Len(chosen)].records, rejected |-> FALSE]

\* Before the first call of sendAlertNotification.
NoneDispatched ==
    [alertId |-> NoId, severity |-> Undefined, requested |-> <<>>, fails |-> {},
     channels |-> <<>>, attempts |-> <<>>, records |-> <<>>, rejected |-> FALSE]

\* What a call of sendAlertNotification leaves behind.
Dispatched(alertId, connections, severity, requested, fails) ==
    LET d == sendAlertNotification(DefaultRecipients, connections, severity, requested, fails)
    IN [alertId |-> alertId, severity |-> severity, requested |-> requested, fails |-> fails,
        channels |-> d.channels, attempts |-> d.attempts, records |-> d.records,
        rejected |-> d.rejected]

----------------------------------------------------------------------------
(* The HTTP handlers.  A handler runs without interruption except where it  *)
(* awaits the language model: storage calls complete in the same turn of    *)
(* the event loop.                                                          *)

Response(route, id, userId, code, anomaly) ==
    [seq |-> served + 1, route |-> route, id |-> id, userId |-> userId, code |-> code,
     anomaly |-> anomaly]

NoResponse == [seq |-> 0, route |-> "none", id |-> NoId, userId |-> "system", code |-> 0, anomaly |-> FALSE]

\* Ids a lifecycle request may name: a stored alert, or an id no alert has.
TargetIds == Ids(alerts) \cup {NoId}

\* updateAlertStatus(alertId, status, userId, notes): logs and leaves the
\* store as it is.
updateAlertStatus(map, alertId, status, userId) == map

\* getAlertInteractions(alertId): the fixed list it returns.
getAlertInteractions(alertId) == <<[action |-> "created", userId |-> "system"]>>

\* POST /api/energy/simulate from the analysis on: the anomaly and alert
\* records and the response.  em is the metric store with the new reading.
SimulateRespond(em, analysis, savedId) ==
    /\ energyMetrics' = em
    /\ served' = served + 1
    /\ IF analysis.threw
       THEN /\ UNCHANGED <<anomalies, alerts>>
            /\ lastResponse' = Response("simulate", savedId, "system", 500, FALSE)
       ELSE IF analysis.value.isAnomaly
       THEN /\ anomalies' = addAnomaly(anomalies,
                                [type |-> Or(analysis.value.type, "unknown"),
                                 severity |-> Or(analysis.value.severity, "medium"),
                                 score |-> analysis.value.score,
                                 affectedComponent |-> analysis.value.affectedComponent], now)
            /\ alerts' = addAlert(alerts, [type |-> "anomaly", anomalyId |-> randomUUID(anomalies)], now)
            /\ lastResponse' = Response("simulate", savedId, "system", 200, TRUE)
       ELSE /\ UNCHANGED <<anomalies, alerts>>
            /\ lastResponse' = Response("simulate", savedId, "system", 200, FALSE)

\* POST /api/energy/simulate up to the language-model call, or to the end
\* when analyzeEnergyPattern does not reach it.
SimulateStart(type, anomalyType, draw) ==
    /\ served + Len(inflight) < MaxRequests
    /\ LET metric == IF type = "anomaly"
                     THEN generateAnomalousMetric(baseStorage, anomalyType, draw)
                     ELSE generateRealisticMetric(baseStorage, draw)
           em == addEnergyMetric(energyMetrics, metric, now)
           savedId == randomUUID(energyMetrics)
           recentMetrics == getRecentEnergyMetrics(em, 24, now)
       IN /\ baseStorage' = generateRealisticMetric(baseStorage, draw).storage
          /\ IF CallsAI(recentMetrics)
             THEN /\ Len(inflight) < MaxInflight
                  /\ inflight' = Append(inflight, [metricId |-> savedId, metrics |-> recentMetrics])
                  /\ energyMetrics' = em
                  /\ UNCHANGED <<anomalies, alerts, served, lastResponse>>
             ELSE /\ SimulateRespond(em, analyzeEnergyPattern(recentMetrics, NotAsked), savedId)
                  /\ UNCHANGED inflight
    /\ UNCHANGED <<now, detectVars, notifyVars, simulator, clientVars>>

\* POST /api/energy/simulate resumed when the language-model call ends as ai.
SimulateResume(i, ai) ==
    /\ i \in 1..Len(inflight)
    /\ SimulateRespond(energyMetrics, analyzeEnergyPattern(inflight[i].metrics, ai), inflight[i].metricId)
    /\ inflight' = SubSeq(inflight, 1, i - 1) \o SubSeq(inflight, i + 1, Len(inflight))
    /\ UNCHANGED <<now, baseStorage, detectVars, notifyVars, simulator, clientVars>>

\* for (let i = 0; i < 24; i++)
InitReadings == 24

\* The readings of n consecutive generateRealisticMetric calls from
\* baseStorage = base.  The calls of one request draw alike: they run within
\* the same hour, and the model gives Math.random() one value per request.
RECURSIVE GenerateRun(_, _, _)
GenerateRun(base, draw, n) ==
    IF n = 0 THEN <<>>
    ELSE LET metric == generateRealisticMetric(base, draw)
         IN <<metric>> \o GenerateRun(metric.storage, draw, n - 1)

RECURSIVE AddAllMetrics(_, _, _)
AddAllMetrics(map, metrics, date) ==
    IF metrics = <<>> THEN map
    ELSE AddAllMetrics(addEnergyMetric(map, Head(metrics), date), Tail(metrics), date)

\* POST /api/system/initialize
Initialize(draw) ==
    /\ served + Len(inflight) < MaxRequests
    /\ LET run == GenerateRun(baseStorage, draw, InitReadings)
           base == run[Len(run)].storage
           anomalyMetric == generateAnomalousMetric(base, "consumption_spike", draw)
       IN /\ energyMetrics' = addEnergyMetric(AddAllMetrics(energyMetrics, run, now), anomalyMetric, now)
          /\ baseStorage' = generateRealisticMetric(base, draw).storage
    /\ anomalies' = addAnomaly(anomalies, [type |-> "consumption", severity |-> "high", score |-> 87,
                                           affectedComponent |-> "zone_3_equipment"], now)
    /\ alerts' = addAlert(alerts, [type |-> "anomaly", anomalyId |-> randomUUID(anomalies)], now)
    /\ served' = served + 1
    /\ lastResponse' = Response("initialize", NoId, "system", 200, FALSE)
    /\ UNCHANGED <<now, inflight, detectVars, notifyVars, simulator, clientVars>>

\* POST /api/alerts/:id/acknowledge
Acknowledge(id, userId) ==
    /\ served + Len(inflight) < MaxRequests
    /\ alerts' = updateAlertStatus(alerts, id, "acknowledged", userId)
    /\ served' = served + 1
    /\ lastResponse' = Response("acknowledge", id, userId, 200, FALSE)
    /\ UNCHANGED <<energyMetrics, anomalies, now, baseStorage, inflight, detectVars, notifyVars, simulator, clientVars>>

\* POST /api/alerts/:id/resolve
Resolve(id, userId) ==
    /\ served + Len(inflight) < MaxRequests
    /\ alerts' = updateAlertStatus(alerts, id, "resolved", userId)
    /\ served' = served + 1
    /\ lastResponse' = Response("resolve", id, userId, 200, FALSE)
    /\ UNCHANGED <<energyMetrics, anomalies, now, baseStorage, inflight, detectVars, notifyVars, simulator, clientVars>>

\* POST /api/alerts/:id/dismiss (both registrations of the path call
\* storage.dismissAlert and answer success)
Dismiss(id, userId) ==
    /\ served + Len(inflight) < MaxRequests
    /\ alerts' = dismissAlert(alerts, id, now)
    /\ served' = served + 1
    /\ lastResponse' = Response("dismiss", id, userId, 200, FALSE)
    /\ UNCHANGED <<energyMetrics, anomalies, now, baseStorage, inflight, detectVars, notifyVars, simulator, clientVars>>

\* A millisecond passes.
Tick ==
    /\ now < MaxClock
    /\ now' = now + 1
    /\ UNCHANGED <<energyMetrics, anomalies, alerts, baseStorage, inflight, served, lastResponse, detectVars, notifyVars, simulator, clientVars>>

Init ==
    /\ energyMetrics = <<>>
    /\ anomalies = <<>>
    /\ alerts = <<>>
    /\ now = 0
    /\ baseStorage = InitialBaseStorage
    /\ simulator = NewSimulator(InitialBaseStorage * 1000)
    /\ inflight = <<>>
    /\ served = 0
    /\ lastResponse = NoResponse
    /\ dWindow = <<>>
    /\ dPc = "idle"
    /\ dRule = NoAnomaly
    /\ dAi = NotAsked
    /\ dAnalysis = [threw |-> FALSE, value |-> NoAnomaly]
    /\ dAlerts = <<>>
    /\ dResult = <<>>
    /\ dPasses = <<>>
    /\ dThrew = {}
    /\ dNull = {}
    /\ rules = DefaultRules
    /\ websocketConnections = <<>>
    /\ sockets = <<>>
    /\ InitClient
    /\ dispatch = NoneDispatched

\* The simulate requests of Spec: req.body.anomalyType is absent (the handler
\* takes consumption_spike), and the language model throws, finds nothing or
\* reports a medium anomaly.
SimulateAnomalyTypes == {"consumption_spike"}
SimulateAIOutcomes == {o \in AIOutcomes : o.reply.severity # "low"}

Next ==
    \/ \E draw \in Draws : SimulateStart("normal", "none", draw)
    \/ \E anomalyType \in SimulateAnomalyTypes, draw \in Draws : SimulateStart("anomaly", anomalyType, draw)
    \/ \E i \in 1..Len(inflight), ai \in SimulateAIOutcomes : SimulateResume(i, ai)
    \/ \E draw \in Draws : Initialize(draw)
    \/ \E id \in TargetIds, userId \in Users : Acknowledge(id, userId)
    \/ \E id \in TargetIds, userId \in Users : Resolve(id, userId)
    \/ \E id \in TargetIds, userId \in Users : Dismiss(id, userId)
    \/ Tick

Spec == Init /\ [][Next]_vars

\* Spec with the passing of time.  performAIAnalysis awaits
\* openai.chat.completions.create and sets no timer and no abort signal, so
\* nothing in the program makes SimulateResume happen: its step is the
\* answer of the language model, and it carries no fairness.
SpecLive == Init /\ [][Next]_vars /\ WF_vars(Tick)

----------------------------------------------------------------------------
(* Calls of AlertDetectionEngine.detectAnomalies.  The windows handed to it *)
(* end in the reading latest; a window of two or more readings starts with  *)
(* the reading first and repeats it up to the last position.                *)

Reading(consumption, generation, storage, solarEfficiency, batteryHealth) ==
    [consumption |-> consumption, generation |-> generation, storage |-> storage,
     solarEfficiency |-> solarEfficiency, batteryHealth |-> batteryHealth]

LatestReadings ==
    {Reading(c, 50, s, e, h) : c \in {200, 260, 301}, s \in {4, 8, 12, 50}, e \in {45, 60, 90}, h \in {80, 97}}

FirstReadings == {Reading(200, 50, 50, 90, 97), Reading(200, 100, 50, 90, 97), Reading(0, 0, 50, 90, 97)}

WindowLengths == {0, 1, 9, 10}

Window(first, latest, n) ==
    [i \in 1..n |-> IF i = n THEN latest ELSE first]

DetectWindows ==
    {<<>>} \cup {Window(f, l, n) : f \in FirstReadings, l \in LatestReadings, n \in WindowLengths \ {0}}

\* The label detectAnomalies is at when the pass named pass has ended: the
\* statements of the method in their order.
afterPassSkipsThresholds(pass) ==
    CASE pass = "ai" -> "rules"
      [] pass = "rules" -> "pattern"
      [] pass = "thresholds" -> "pattern"
      [] pass = "pattern" -> "done"

afterPass(pass) ==
    CASE pass = "ai" -> "rules"
      [] pass = "rules" -> "thresholds"
      [] pass = "thresholds" -> "pattern"
      [] pass = "pattern" -> "done"

\* A window whose data break the EnergyMetric type at run time.  nulls names
\* the fields of the latest reading that are null, which compare as 0 and
\* have no toFixed, or holds "element" when a reading before the latest is
\* null.  The readings of the model carry 0 in a null field.
\* detectRuleBasedAnomalies throws: the check that matches formats a null.
detectRuleBasedAnomaliesThrows(metric, nulls) ==
    LET matched == detectRuleBasedAnomalies(metric)
    IN /\ matched.isAnomaly
       /\ \/ matched.type = "consumption" /\ "consumption" \in nulls
          \/ matched.type = "storage" /\ "storage" \in nulls
          \/ matched.type = "generation" /\ "solarEfficiency" \in nulls
          \/ matched.type = "device_fault" /\ "batteryHealth" \in nulls

\* analyzeEnergyPattern throws: detectRuleBasedAnomalies runs outside its try.
analyzeEnergyPatternThrows(metrics, nulls) ==
    /\ Len(metrics) # 0
    /\ detectRuleBasedAnomaliesThrows(metrics[Len(metrics)], nulls)

\* performAIAnalysis throws before the language-model call: the prompt's
\* statistics read a field of the null reading.
PromptThrows(metrics, nulls) == Len(metrics) >= 2 /\ "element" \in nulls

\* performThresholdDetection throws: a threshold that matches formats a null.
performThresholdDetectionThrows(energyMetrics_, nulls) ==
    /\ Len(energyMetrics_) # 0
    /\ LET latest == energyMetrics_[Len(energyMetrics_)]
       IN \/ latest.consumption > 300 /\ "consumption" \in nulls
          \/ latest.storage < 10 /\ "storage" \in nulls
          \/ latest.solarEfficiency < 50 /\ "solarEfficiency" \in nulls
          \/ latest.batteryHealth < 85 /\ "batteryHealth" \in nulls

\* performPatternAnalysis throws: metrics.map reads a field of the null reading.
performPatternAnalysisThrows(metrics, nulls) ==
    Len(metrics) >= MinTrendWindow /\ "element" \in nulls

\* detectAnomalies up to the language-model call, or through the AI pass when
\* analyzeEnergyPattern does not reach the call.
DetectCall(window, nulls) ==
    /\ dPc \in {"idle", "done", "rejected"}
    /\ dWindow' = window
    /\ dNull' = nulls
    /\ dAi' = NotAsked
    /\ dResult' = <<>>
    /\ IF analyzeEnergyPatternThrows(window, nulls)
       THEN /\ dRule' = NoAnomaly
            /\ dAnalysis' = [threw |-> TRUE, value |-> NoAnomaly]
            /\ dAlerts' = <<>>
            /\ dPasses' = <<"ai">>
            /\ dThrew' = {"ai"}
            /\ dPc' = afterPass("ai")
       ELSE /\ dRule' = IF Len(window) = 0 THEN NoAnomaly
                        ELSE detectRuleBasedAnomalies(window[Len(window)])
            /\ dThrew' = {}
            /\ IF CallsAI(window) /\ ~PromptThrows(window, nulls)
               THEN /\ dPc' = "ai_wait"
                    /\ dAnalysis' = [threw |-> FALSE, value |-> NoAnomaly]
                    /\ dAlerts' = <<>>
                    /\ dPasses' = <<>>
               ELSE /\ dPc' = afterPass("ai")
                    /\ dAnalysis' = analyzeEnergyPattern(window, [threw |-> CallsAI(window), reply |-> NoAnomaly])
                    /\ dAlerts' = performAIDetection(window, [threw |-> CallsAI(window), reply |-> NoAnomaly])
                    /\ dPasses' = <<"ai">>
    /\ UNCHANGED <<storeVars, notifyVars, rules, clientVars>>

\* The language-model call ends as ai: the rest of the AI pass.
DetectAIReturn(ai) ==
    /\ dPc = "ai_wait"
    /\ dAi' = ai
    /\ dAnalysis' = analyzeEnergyPattern(dWindow, ai)
    /\ dAlerts' = performAIDetection(dWindow, ai)
    /\ dPasses' = Append(dPasses, "ai")
    /\ dPc' = afterPass("ai")
    /\ UNCHANGED <<dWindow, dRule, dResult, dThrew, dNull, storeVars, notifyVars, rules, clientVars>>

\* 2. Rule-based detection
DetectRules ==
    /\ dPc = "rules"
    /\ dAlerts' = dAlerts \o performRuleDetection(rules, dWindow)
    /\ dPasses' = Append(dPasses, "rules")
    /\ dPc' = afterPass("rules")
    /\ UNCHANGED <<dWindow, dRule, dAi, dAnalysis, dResult, dThrew, dNull, storeVars, notifyVars, rules, clientVars>>

\* 3. Threshold monitoring.  An exception of the pass leaves detectAnomalies.
DetectThresholds ==
    /\ dPc = "thresholds"
    /\ dPasses' = Append(dPasses, "thresholds")
    /\ IF performThresholdDetectionThrows(dWindow, dNull)
       THEN /\ dThrew' = dThrew \cup {"thresholds"}
            /\ dPc' = "rejected"
            /\ UNCHANGED dAlerts
       ELSE /\ dAlerts' = dAlerts \o performThresholdDetection(dWindow)
            /\ dPc' = afterPass("thresholds")
            /\ UNCHANGED dThrew
    /\ UNCHANGED <<dWindow, dRule, dAi, dAnalysis, dResult, dNull, storeVars, notifyVars, rules, clientVars>>

\* 4. Pattern analysis, and the return of the merged list.  An exception of
\* the pass leaves detectAnomalies.
DetectPattern ==
    /\ dPc = "pattern"
    /\ dPasses' = Append(dPasses, "pattern")
    /\ IF performPatternAnalysisThrows(dWindow, dNull)
       THEN /\ dThrew' = dThrew \cup {"pattern"}
            /\ dPc' = "rejected"
            /\ UNCHANGED <<dAlerts, dResult>>
       ELSE /\ dAlerts' = dAlerts \o performPatternAnalysis(dWindow)
            /\ dResult' = deduplicateAndPrioritizeAlerts(dAlerts')
            /\ dPc' = afterPass("pattern")
            /\ UNCHANGED dThrew
    /\ UNCHANGED <<dWindow, dRule, dAi, dAnalysis, dNull, storeVars, notifyVars, rules, clientVars>>

NextDetect ==
    \/ \E window \in DetectWindows : DetectCall(window, {})
    \/ \E ai \in AIOutcomes : DetectAIReturn(ai)
    \/ DetectRules
    \/ DetectThresholds
    \/ DetectPattern

SpecDetect == Init /\ [][NextDetect]_vars

\* Calls of detectAnomalies with a window that breaks the EnergyMetric type:
\* one field of the latest reading is null, or a reading before it is.
NullChoices == {{"consumption"}, {"storage"}, {"solarEfficiency"}, {"batteryHealth"}, {"element"}}

WithNulls(window, nulls) ==
    [i \in 1..Len(window) |->
       IF i < Len(window) THEN window[i]
       ELSE Reading(IF "consumption" \in nulls THEN 0 ELSE window[i].consumption,
                    window[i].generation,
                    IF "storage" \in nulls THEN 0 ELSE window[i].storage,
                    IF "solarEfficiency" \in nulls THEN 0 ELSE window[i].solarEfficiency,
                    IF "batteryHealth" \in nulls THEN 0 ELSE window[i].batteryHealth)]

MalformedWindows ==
    {w \in DetectWindows :
       /\ Len(w) \in {1, 10}
       /\ w[1].generation = 50
       /\ w[Len(w)].storage \in {8, 50}
       /\ w[Len(w)].batteryHealth = 97}

NextMalformed ==
    \/ \E window \in MalformedWindows, nulls \in NullChoices :
         /\ Len(window) >= (IF "element" \in nulls THEN 2 ELSE 1)
         /\ DetectCall(WithNulls(window, nulls), nulls)
    \/ \E ai \in AIOutcomes : DetectAIReturn(ai)
    \/ DetectRules
    \/ DetectThresholds
    \/ DetectPattern

SpecMalformed == Init /\ [][NextMalformed]_vars

----------------------------------------------------------------------------
(* The dashboard's notification system (SpecClient). *)

serverVars == <<energyMetrics, anomalies, alerts, now, baseStorage, simulator, inflight, served,
                lastResponse, detectVars, notifyVars>>

\* storage.addAlert on the server: a new active alert, first in the list.
AlertRaised(alert) ==
    /\ alert.id \notin raised
    /\ raised' = raised \cup {alert.id}
    /\ activeAlerts' = <<alert>> \o activeAlerts
    /\ UNCHANGED <<dismissals, propAlerts, topBarAlert, modalAlert, unreadCount, processedAlerts,
                   topBarTimers, effectDue, serverVars, modalShown>>

\* The query of /api/dashboard/summary answers with a changed list of alerts.
Refetch ==
    /\ ~effectDue
    /\ propAlerts # DashboardAlerts(activeAlerts)
    /\ propAlerts' = DashboardAlerts(activeAlerts)
    /\ effectDue' = TRUE
    /\ UNCHANGED <<activeAlerts, raised, dismissals, topBarAlert, modalAlert, unreadCount,
                   processedAlerts, topBarTimers, serverVars, modalShown>>

\* The first useEffect of AlertNotificationSystem.
ProcessAlerts ==
    /\ effectDue
    /\ LET newAlerts == NewAlerts(propAlerts, processedAlerts)
           warnings == OfSeverity(newAlerts, "warning")
       IN /\ processedAlerts' = processedAlerts \cup Ids(newAlerts)
          /\ modalAlert' = ShownAfter(modalAlert, newAlerts, "critical")
          /\ topBarAlert' = ShownAfter(topBarAlert, newAlerts, "warning")
          /\ topBarTimers' = IF topBarAlert = NoAlert
                                THEN Min(MaxTimers, topBarTimers + Len(warnings))
                                ELSE topBarTimers
          /\ unreadCount' = Len(propAlerts)
          /\ effectDue' = (newAlerts # <<>>)
    /\ modalShown' = modalShown \cup ({modalAlert'} \ {NoAlert})
    /\ UNCHANGED <<activeAlerts, raised, dismissals, propAlerts, serverVars>>

\* The interval of the second useEffect.
CleanupProcessed ==
    /\ ~effectDue
    /\ processedAlerts' = processedAlerts \cap Ids(propAlerts)
    /\ effectDue' = TRUE
    /\ UNCHANGED <<activeAlerts, raised, dismissals, propAlerts, topBarAlert, modalAlert,
                   unreadCount, topBarTimers, serverVars, modalShown>>

\* handleConfirmModal and handleDismissModal: onAlertAction is
\* Dashboard.handleAlertDismiss, which drops the action and asks the server
\* to dismiss the alert.
HandleModalButton(action) ==
    /\ ~effectDue
    /\ modalAlert # NoAlert
    /\ dismissals' = [dismissals EXCEPT ![modalAlert] = "pending"]
    /\ modalAlert' = NoAlert
    /\ processedAlerts' = processedAlerts \ {modalAlert}
    /\ effectDue' = TRUE
    /\ UNCHANGED <<activeAlerts, raised, propAlerts, topBarAlert, unreadCount, topBarTimers,
                   serverVars, modalShown>>

\* The dialog's onOpenChange: Escape, or a click outside the dialog.
DialogOpenChange ==
    /\ ~effectDue
    /\ modalAlert # NoAlert
    /\ modalAlert' = NoAlert
    /\ effectDue' = TRUE
    /\ UNCHANGED <<activeAlerts, raised, dismissals, propAlerts, topBarAlert, unreadCount,
                   processedAlerts, topBarTimers, serverVars, modalShown>>

HandleDismissTopBar ==
    /\ ~effectDue
    /\ topBarAlert # NoAlert
    /\ dismissals' = [dismissals EXCEPT ![topBarAlert] = "pending"]
    /\ topBarAlert' = NoAlert
    /\ processedAlerts' = processedAlerts \ {topBarAlert}
    /\ effectDue' = TRUE
    /\ UNCHANGED <<activeAlerts, raised, propAlerts, modalAlert, unreadCount, topBarTimers,
                   serverVars, modalShown>>

\* The top bar's Acknowledge button.
TopBarAcknowledge ==
    /\ ~effectDue
    /\ topBarAlert # NoAlert
    /\ dismissals' = [dismissals EXCEPT ![topBarAlert] = "pending"]
    /\ UNCHANGED <<activeAlerts, raised, propAlerts, topBarAlert, modalAlert, unreadCount,
                   processedAlerts, topBarTimers, effectDue, serverVars, modalShown>>

\* A timer of the top bar fires.
TopBarTimeout ==
    /\ ~effectDue
    /\ topBarTimers > 0
    /\ topBarTimers' = topBarTimers - 1
    /\ topBarAlert' = NoAlert
    /\ effectDue' = (topBarAlert # NoAlert)
    /\ UNCHANGED <<activeAlerts, raised, dismissals, propAlerts, modalAlert, unreadCount,
                   processedAlerts, serverVars, modalShown>>

\* POST /api/alerts/:id/dismiss answers: storage.dismissAlert has taken the
\* alert out of the active ones.
DismissAnswered(id) ==
    /\ dismissals[id] = "pending"
    /\ dismissals' = [dismissals EXCEPT ![id] = "done"]
    /\ activeAlerts' = LET Others(alert) == alert.id # id IN SelectSeq(activeAlerts, Others)
    /\ UNCHANGED <<raised, propAlerts, topBarAlert, modalAlert, unreadCount, processedAlerts,
                   topBarTimers, effectDue, serverVars, modalShown>>

NextClient ==
    \/ \E alert \in AlertPool : AlertRaised(alert)
    \/ Refetch
    \/ ProcessAlerts
    \/ CleanupProcessed
    \/ \E action \in {"acknowledge", "dismiss"} : HandleModalButton(action)
    \/ DialogOpenChange
    \/ HandleDismissTopBar
    \/ TopBarAcknowledge
    \/ TopBarTimeout
    \/ \E id \in raised : DismissAnswered(id)

SpecClient == Init /\ [][NextClient]_vars

\* React runs an effect that is due, the query refetches, the server
\* answers, and the operator presses a button of a modal that stays open.
SpecClientLive ==
    /\ SpecClient
    /\ WF_vars(ProcessAlerts)
    /\ WF_vars(Refetch)
    /\ WF_vars(\E id \in raised : DismissAnswered(id))
    /\ SF_vars(\E action \in {"acknowledge", "dismiss"} : HandleModalButton(action))

----------------------------------------------------------------------------
(* Calls of EnergyDataSimulator on its own (SpecSimulator).  The simulator  *)
(* starts new, or with the baseStorage that earlier calls left.             *)

\* Calls of the simulator in one behaviour.
MaxSamples == 2

\* baseStorage after construction and after earlier calls, in thousandths.
SimulatorBases == {InitialBaseStorage * 1000, 30000, 11300, 10000}

InitSimulator ==
    \E base \in SimulatorBases :
        /\ energyMetrics = <<>> /\ anomalies = <<>> /\ alerts = <<>> /\ now = 0
        /\ baseStorage = InitialBaseStorage /\ simulator = NewSimulator(base)
        /\ inflight = <<>> /\ served = 0
        /\ lastResponse = NoResponse
        /\ dWindow = <<>> /\ dPc = "idle" /\ dRule = NoAnomaly /\ dAi = NotAsked
        /\ dAnalysis = [threw |-> FALSE, value |-> NoAnomaly]
        /\ dAlerts = <<>> /\ dResult = <<>> /\ dPasses = <<>> /\ dThrew = {} /\ dNull = {}
        /\ rules = DefaultRules
        /\ websocketConnections = <<>> /\ sockets = <<>> /\ dispatch = NoneDispatched
        /\ InitClient

\* energySimulator.generateRealisticMetric()
GenerateRealisticMetric(draw) ==
    /\ simulator.calls < MaxSamples
    /\ LET sample == generateRealisticMetricExact(simulator.baseStorage, draw)
       IN simulator' = [baseStorage |-> sample.baseStorage, calls |-> simulator.calls + 1,
                        kind |-> "normal", normal |-> sample.metric, returned |-> sample.metric]
    /\ UNCHANGED <<energyMetrics, anomalies, alerts, now, baseStorage, inflight, served,
                   lastResponse, detectVars, notifyVars, clientVars>>

\* energySimulator.generateAnomalousMetric(anomalyType)
GenerateAnomalousMetric(anomalyType, draw) ==
    /\ simulator.calls < MaxSamples
    /\ LET sample == generateRealisticMetricExact(simulator.baseStorage, draw)
       IN simulator' = [baseStorage |-> sample.baseStorage, calls |-> simulator.calls + 1,
                        kind |-> anomalyType, normal |-> sample.metric,
                        returned |-> generateAnomalousMetricExact(sample.metric, anomalyType)]
    /\ UNCHANGED <<energyMetrics, anomalies, alerts, now, baseStorage, inflight, served,
                   lastResponse, detectVars, notifyVars, clientVars>>

NextSimulator ==
    \/ \E draw \in SampleDraws : GenerateRealisticMetric(draw)
    \/ \E anomalyType \in AnomalyTypes, draw \in SampleDraws : GenerateAnomalousMetric(anomalyType, draw)

SpecSimulator == InitSimulator /\ [][NextSimulator]_vars

----------------------------------------------------------------------------
(* Calls of performRuleDetection on its own, for rule lists other than the  *)
(* three default rules (SpecRules).  The engine is built with one of the    *)
(* rule lists of RuleSets and the pass is called on the windows of          *)
(* RuleWindows.                                                             *)

Rule(id, nameWords, conditions, enabled) ==
    [id |-> id, nameWords |-> nameWords, severity |-> "warning", conditions |-> conditions,
     enabled |-> enabled]

Condition(metric, operator, value) == [metric |-> metric, operator |-> operator, value |-> value]

\* The default rules, a disabled rule, a rule on a metric and a rule with an
\* operator that evaluateCondition does not know, and a rule of two
\* conditions.
RulePool ==
    {DefaultRules[k] : k \in 1..Len(DefaultRules)}
    \cup { Rule("consumption-off", {"consumption"}, <<Condition("consumption", ">", 250)>>, FALSE),
           Rule("frequency-drift", {"device"}, <<Condition("frequency", ">", 0)>>, TRUE),
           Rule("load-pattern", {"consumption"}, <<Condition("consumption", "contains", 0)>>, TRUE),
           Rule("loaded-and-drained", {"battery"},
                <<Condition("consumption", ">", 250), Condition("storage", "<", 15)>>, TRUE) }

RuleSets ==
    {DefaultRules} \cup {p \in RulePool \X RulePool : p[1].id # p[2].id}

RuleWindows ==
    {<<>>}
    \cup {Window(Reading(301, 50, 4, 45, 80), Reading(c, 50, s, 90, 97), n) :
            c \in {200, 301}, s \in {12, 50}, n \in {1, 2}}

\* new AlertDetectionEngine(aiService) with the rule list of this behaviour
InitRules ==
    \E rs \in RuleSets :
        /\ energyMetrics = <<>> /\ anomalies = <<>> /\ alerts = <<>> /\ now = 0
        /\ baseStorage = InitialBaseStorage /\ simulator = NewSimulator(InitialBaseStorage * 1000)
        /\ inflight = <<>> /\ served = 0
        /\ lastResponse = NoResponse
        /\ dWindow = <<>> /\ dPc = "idle" /\ dRule = NoAnomaly /\ dAi = NotAsked
        /\ dAnalysis = [threw |-> FALSE, value |-> NoAnomaly]
        /\ dAlerts = <<>> /\ dResult = <<>> /\ dPasses = <<>> /\ dThrew = {} /\ dNull = {}
        /\ rules = rs
        /\ websocketConnections = <<>> /\ sockets = <<>> /\ dispatch = NoneDispatched
        /\ InitClient

\* performRuleDetection(energyMetrics, sensorData)
RuleDetectionCall(window) ==
    /\ dWindow' = window
    /\ dAlerts' = performRuleDetection(rules, window)
    /\ dPasses' = <<"rules">>
    /\ UNCHANGED <<dPc, dRule, dAi, dAnalysis, dResult, dThrew, dNull, rules, storeVars, notifyVars, clientVars>>

NextRules == \E window \in RuleWindows : RuleDetectionCall(window)

SpecRules == InitRules /\ [][NextRules]_vars

----------------------------------------------------------------------------
(* Calls of NotificationService, and the manual alert route that calls it   *)
(* (SpecNotify).                                                            *)

\* The users that open a websocket.
SocketUsers == {"admin"}

Severities == {"critical", "warning", "info"}

\* The channels argument of sendAlertNotification.
RequestedLists ==
    { <<"dashboard", "websocket">>, <<>>, <<"websocket", "sms">> }

\* The sends that may throw.
FailPairs ==
    {<<"email", DefaultRecipients[i].email>> : i \in 1..Len(DefaultRecipients)}
    \cup {<<"sms", DefaultRecipients[i].phone>> : i \in 1..Len(DefaultRecipients)}
    \cup {<<"push", DefaultRecipients[i].userId>> : i \in 1..Len(DefaultRecipients)}
    \cup {<<"websocket", u>> : u \in SocketUsers}

\* No send throws, one does (the first of a channel, or the last push), or
\* every send does.
FailChoices ==
    {{}, FailPairs}
    \cup {{<<c, DefaultRecipients[1].email>>} : c \in {"email"}}
    \cup {{<<c, DefaultRecipients[1].phone>>} : c \in {"sms"}}
    \cup {{<<c, DefaultRecipients[2].userId>>} : c \in {"push"}}
    \cup {{<<"websocket", u>>} : u \in SocketUsers}

\* WebSocket objects registered in one behaviour.
MaxSockets == 2

\* The entries of the connection map with the readyState of their sockets.
Connections(map, socks) ==
    [i \in 1..Len(map) |->
        [id |-> map[i].id, socket |-> map[i].socket, readyState |-> socks[map[i].socket].readyState]]

\* this.websocketConnections.delete(userId)
DeleteConnection(map, userId) == SelectSeq(map, LAMBDA c : c.id # userId)

\* addWebSocketConnection(userId, ws), ws a new open socket: the entry of
\* userId is set to it and its close handler is installed.
AddWebSocketConnection(userId) ==
    /\ Len(sockets) < MaxSockets
    /\ sockets' = Append(sockets, [userId |-> userId, readyState |-> "OPEN"])
    /\ websocketConnections' = MapSet(websocketConnections, [id |-> userId, socket |-> Len(sockets) + 1])
    /\ UNCHANGED <<dispatch, storeVars, detectVars, clientVars>>

\* removeWebSocketConnection(userId)
RemoveWebSocketConnection(userId) ==
    /\ websocketConnections' = DeleteConnection(websocketConnections, userId)
    /\ UNCHANGED <<sockets, dispatch, storeVars, detectVars, clientVars>>

\* Socket k starts its closing handshake: readyState is CLOSING until the
\* close event.
SocketClosing(k) ==
    /\ k \in 1..Len(sockets)
    /\ sockets[k].readyState = "OPEN"
    /\ sockets' = [sockets EXCEPT ![k].readyState = "CLOSING"]
    /\ UNCHANGED <<websocketConnections, dispatch, storeVars, detectVars, clientVars>>

\* The close event of socket k: the handler installed by
\* addWebSocketConnection deletes the entry of the userId it was registered
\* under.
SocketClose(k) ==
    /\ k \in 1..Len(sockets)
    /\ sockets[k].readyState # "CLOSED"
    /\ sockets' = [sockets EXCEPT ![k].readyState = "CLOSED"]
    /\ websocketConnections' = DeleteConnection(websocketConnections, sockets[k].userId)
    /\ UNCHANGED <<dispatch, storeVars, detectVars, clientVars>>

\* notificationService.sendAlertNotification(alert, channels)
SendAlertNotification(alertId, severity, requested, fails) ==
    /\ dispatch' = Dispatched(alertId, Connections(websocketConnections, sockets), severity,
                               requested, fails)
    /\ UNCHANGED <<websocketConnections, sockets, storeVars, detectVars, clientVars>>

\* The fields of req.body the schema of validateManualAlert reads.  title and
\* description are the lengths of the strings, NoString when there is none.
NoString == -1
MaxTitle == 200
MaxDescription == 1000
AlertTypes == {"consumption", "generation", "storage", "device_fault", "system_health", "anomaly"}

ManualBody(title, description, type, severity) ==
    [title |-> title, description |-> description, type |-> type, severity |-> severity]

\* Three bodies the schema accepts (no severity, critical, warning) and one
\* body for each way of failing it.
ManualBodies ==
    { ManualBody(5, 20, "consumption", Undefined),
      ManualBody(5, 20, "consumption", "critical"),
      ManualBody(5, 20, "consumption", "warning"),
      ManualBody(0, 20, "consumption", "critical"),
      ManualBody(NoString, 20, "consumption", Undefined),
      ManualBody(5, 0, "consumption", Undefined),
      ManualBody(5, 20, "critical", Undefined),
      ManualBody(5, 20, "consumption", "fatal") }

\* The sends that throw while a manual alert is dispatched.
ManualFails == {{}, {<<"websocket", u>> : u \in SocketUsers}}

\* schema.parse(alertData) returns
validateManualAlertLax(alertData) ==
    /\ alertData.title \in 0..MaxTitle
    /\ alertData.description \in 0..MaxDescription
    /\ alertData.type # Undefined
    /\ alertData.severity \in Severities \cup {Undefined}

validateManualAlert(alertData) ==
    /\ alertData.title \in 1..MaxTitle
    /\ alertData.description \in 1..MaxDescription
    /\ alertData.type \in AlertTypes
    /\ alertData.severity \in Severities \cup {Undefined}

\* POST /api/alerts/manual
Manual(alertData, fails) ==
    /\ served + Len(inflight) < MaxRequests
    /\ served' = served + 1
    /\ IF validateManualAlert(alertData)
       THEN LET stored == addAlert(alerts, [type |-> alertData.type, anomalyId |-> NoId], now)
                alert == stored[Len(stored)]
            IN /\ alerts' = stored
               /\ dispatch' = Dispatched(alert.id, Connections(websocketConnections, sockets), Undefined,
                                         <<"dashboard", "websocket">>, fails)
               /\ lastResponse' = Response("manual", alert.id, "system", 200, FALSE)
       ELSE /\ lastResponse' = Response("manual", NoId, "system", 500, FALSE)
            /\ UNCHANGED <<alerts, dispatch>>
    /\ UNCHANGED <<energyMetrics, anomalies, now, baseStorage, inflight, websocketConnections, sockets, detectVars, simulator, clientVars>>

NextNotify ==
    \/ \E u \in SocketUsers : sockets = <<>> /\ AddWebSocketConnection(u)
    \/ \E u \in SocketUsers : RemoveWebSocketConnection(u)
    \/ \E k \in 1..Len(sockets) : SocketClose(k)
    \/ \E severity \in Severities, requested \in RequestedLists, fails \in FailChoices :
         SendAlertNotification(NoId, severity, requested, fails)
    \/ \E alertData \in ManualBodies, fails \in ManualFails : Manual(alertData, fails)

SpecNotify == Init /\ [][NextNotify]_vars

\* The connection map under addWebSocketConnection calls and socket events
\* alone, with alert broadcasts in between (SpecSockets).
SocketOwners == {"admin", "operator"}

NextSockets ==
    \/ \E u \in SocketOwners : AddWebSocketConnection(u)
    \/ \E k \in 1..Len(sockets) : SocketClosing(k)
    \/ \E k \in 1..Len(sockets) : SocketClose(k)
    \/ SendAlertNotification(NoId, Undefined, <<"dashboard", "websocket">>, {})

SpecSockets == Init /\ [][NextSockets]_vars

----------------------------------------------------------------------------
(* The alert lifecycle and the alert store (Spec). *)

\* The resolvedBy of a stored alert: the record addAlert builds has no such
\* field, and no handler adds one.
resolvedBy(alert) == Undefined

C2_IllegalRequestsFail ==
    [][(/\ lastResponse'.seq = lastResponse.seq + 1
        /\ lastResponse'.route \in {"acknowledge", "resolve", "dismiss"}
        /\ MapHas(alerts, lastResponse'.id))
       => LET status == Status(MapGet(alerts, lastResponse'.id))
              illegal == \/ lastResponse'.route = "acknowledge" /\ status # "active"
                         \/ lastResponse'.route \in {"resolve", "dismiss"}
                            /\ status \in {"resolved", "dismissed"}
              again == /\ lastResponse'.route = "resolve"
                       /\ lastResponse.route = "resolve"
                       /\ lastResponse.id = lastResponse'.id
                       /\ lastResponse.code = 200
          IN /\ illegal => (lastResponse'.code # 200 /\ alerts' = alerts)
             /\ again => lastResponse'.code # 200]_vars

\* C3: when acknowledge(id, u) on an active alert is followed by
\* resolve(id, u), the alert has status resolved and resolvedBy u, and its
\* interaction ledger is the two records acknowledge, resolve.
C3_AcknowledgeThenResolve ==
    [][(/\ lastResponse.route = "acknowledge"
        /\ lastResponse.code = 200
        /\ MapHas(alerts, lastResponse.id)
        /\ Status(MapGet(alerts, lastResponse.id)) \in {"active", "acknowledged"}
        /\ lastResponse'.seq = lastResponse.seq + 1
        /\ lastResponse'.route = "resolve"
        /\ lastResponse'.id = lastResponse.id
        /\ lastResponse'.userId = lastResponse.userId)
       => /\ MapHas(alerts', lastResponse.id)
          /\ Status(MapGet(alerts', lastResponse.id)) = "resolved"
          /\ resolvedBy(MapGet(alerts', lastResponse.id)) = lastResponse.userId
          /\ getAlertInteractions(lastResponse.id)
               = <<[action |-> "acknowledge", userId |-> lastResponse.userId],
                   [action |-> "resolve", userId |-> lastResponse.userId]>>]_vars

\* C4: getActiveAlerts returns exactly the stored alerts whose status is
\* active or acknowledged, newest first; an alert whose resolve request was
\* just answered with success is not among them.
C4_GetActiveIsActiveOrAcknowledged ==
    LET active == getActiveAlerts(alerts)
    IN /\ \A i \in 1..Len(alerts) :
            (Status(alerts[i]) \in {"active", "acknowledged"})
              <=> (\E p \in 1..Len(active) : active[p] = alerts[i])
       /\ \A p \in 1..Len(active) : \E i \in 1..Len(alerts) : active[p] = alerts[i]
       /\ \A p, q \in 1..Len(active) : p < q => active[p].timestamp >= active[q].timestamp
       /\ (lastResponse.route = "resolve" /\ lastResponse.code = 200)
            => \A p \in 1..Len(active) : active[p].id # lastResponse.id

\* C5: the alert store only grows.  In every step each stored alert stays at
\* its place with its id, type, timestamp and anomalyId; an alert the step
\* adds is active and has an id no other alert has; and a request that
\* creates an alert lengthens the store by one.
C5_AlertStoreOnlyGrows ==
    [][/\ Len(alerts') >= Len(alerts)
       /\ \A i \in 1..Len(alerts) :
            /\ alerts'[i].id = alerts[i].id
            /\ alerts'[i].type = alerts[i].type
            /\ alerts'[i].timestamp = alerts[i].timestamp
            /\ alerts'[i].anomalyId = alerts[i].anomalyId
       /\ \A i \in (Len(alerts) + 1)..Len(alerts') : Status(alerts'[i]) = "active"
       /\ \A i, j \in 1..Len(alerts') : i # j => alerts'[i].id # alerts'[j].id
       /\ (lastResponse'.seq # lastResponse.seq
           /\ (lastResponse'.route = "initialize" \/ lastResponse'.anomaly))
            => Len(alerts') = Len(alerts) + 1]_vars

\* C5 witness: a dismiss request was answered for one of two stored alerts,
\* and the dismissed alert is still stored.
C5_Witness ==
    /\ lastResponse.route = "dismiss"
    /\ Len(alerts) >= 2
    /\ MapHas(alerts, lastResponse.id)
    /\ Status(MapGet(alerts, lastResponse.id)) = "dismissed"
    /\ \E i \in 1..Len(alerts) : Status(alerts[i]) = "active"

----------------------------------------------------------------------------
(* The detectors and the merge step (SpecDetect). *)

\* C6: the rule-based detector answers with the first matching check in the
\* order consumption > 300, storage < 5, solarEfficiency < 50,
\* batteryHealth < 85: a reading with consumption > 300 gets isAnomaly,
\* critical, grid_load whatever its other fields are, and a reading that
\* matches no check gets isAnomaly = FALSE with score 0.
C6_RuleBasedFirstMatch ==
    dWindow # <<>> =>
      LET m == dWindow[Len(dWindow)]
      IN /\ m.consumption > 300
              => /\ dRule.isAnomaly
                 /\ dRule.type = "consumption"
                 /\ dRule.severity = "critical"
                 /\ dRule.affectedComponent = "grid_load"
         /\ (m.consumption <= 300 /\ m.storage < 5)
              => /\ dRule.isAnomaly
                 /\ dRule.type = "storage"
                 /\ dRule.severity = "critical"
                 /\ dRule.affectedComponent = "battery_system"
         /\ (m.consumption <= 300 /\ m.storage >= 5 /\ m.solarEfficiency < 50)
              => /\ dRule.isAnomaly
                 /\ dRule.type = "generation"
                 /\ dRule.severity = "high"
                 /\ dRule.affectedComponent = "solar_panels"
         /\ (m.consumption <= 300 /\ m.storage >= 5 /\ m.solarEfficiency >= 50 /\ m.batteryHealth < 85)
              => /\ dRule.isAnomaly
                 /\ dRule.type = "device_fault"
                 /\ dRule.severity = "medium"
                 /\ dRule.affectedComponent = "battery_system"
         /\ (m.consumption <= 300 /\ m.storage >= 5 /\ m.solarEfficiency >= 50 /\ m.batteryHealth >= 85)
              => (~dRule.isAnomaly /\ dRule.score = 0)

\* C6 witness: the detector answered for a reading with consumption > 300 and
\* storage < 5 at once.
C6_Witness ==
    /\ dWindow # <<>>
    /\ dWindow[Len(dWindow)].consumption > 300
    /\ dWindow[Len(dWindow)].storage < 5
    /\ dRule.isAnomaly

\* C7: when the language-model call throws, analyzeEnergyPattern returns
\* { isAnomaly: false, score: 0 }; and no exception ever leaves
\* analyzeEnergyPattern.
C7_AIFailClosed ==
    /\ ~dAnalysis.threw
    /\ dAi.threw => (~dAnalysis.value.isAnomaly /\ dAnalysis.value.score = 0)

\* C7 witness: a language-model call threw and analyzeEnergyPattern returned.
C7_Witness ==
    /\ dAi.threw
    /\ dPc = "rules"
    /\ Len(dWindow) > 0

\* C8: no two results returned by one detectAnomalies call have the same
\* (type, severity, affectedComponent); every key the passes produced is
\* returned, with the result of the earliest pass (AI, rules, thresholds,
\* trend) that produced it; for a reading with consumption > 300 the one
\* critical consumption grid_load result returned is the AI pass's.
C8_DedupKeepsFirstInPassOrder ==
    dPc = "done" =>
      LET pass(r) == CASE r.detectionMethod = "ai_analysis" -> 1
                       [] r.detectionMethod = "rule_based" -> 2
                       [] r.detectionMethod = "threshold" -> 3
                       [] r.detectionMethod = "pattern_analysis" -> 4
          key(r) == <<r.type, r.severity, r.affectedComponent>>
      IN /\ \A i, j \in 1..Len(dResult) : i # j => key(dResult[i]) # key(dResult[j])
         /\ \A i \in 1..Len(dResult) : \E k \in 1..Len(dAlerts) : dAlerts[k] = dResult[i]
         /\ \A k \in 1..Len(dAlerts) : \E i \in 1..Len(dResult) :
              /\ key(dResult[i]) = key(dAlerts[k])
              /\ pass(dResult[i]) <= pass(dAlerts[k])
         /\ (dWindow # <<>> /\ dWindow[Len(dWindow)].consumption > 300)
              => \E i \in 1..Len(dResult) :
                   /\ key(dResult[i]) = <<"consumption", "critical", "grid_load">>
                   /\ dResult[i].detectionMethod = "ai_analysis"

\* C8 witness: a call for a reading with consumption > 300 returned, and it
\* dropped at least two results.
C8_Witness ==
    /\ dPc = "done"
    /\ dWindow # <<>>
    /\ dWindow[Len(dWindow)].consumption > 300
    /\ Len(dAlerts) >= Len(dResult) + 2

\* C9: the merge step applied to the list it returned gives that list again.
C9_DedupIdempotent ==
    dPc = "done" => deduplicateAndPrioritizeAlerts(dResult) = dResult

\* C9 witness: the merge step returned three or more results after dropping
\* a duplicate that did not follow its first occurrence directly.
C9_Witness ==
    /\ dPc = "done"
    /\ Len(dResult) >= 3
    /\ \E i, j, k \in 1..Len(dAlerts) :
         /\ i < j
         /\ j < k
         /\ DedupKey(dAlerts[i]) = DedupKey(dAlerts[k])
         /\ DedupKey(dAlerts[i]) # DedupKey(dAlerts[j])

\* C10: in the list detectAnomalies returns every critical result precedes
\* every warning and every warning precedes every info, and two results of
\* equal severity stand in the order in which the passes produced them.
C10_SortedBySeverityStable ==
    dPc = "done" =>
      LET rank(r) == CASE r.severity = "critical" -> 3
                       [] r.severity = "warning" -> 2
                       [] r.severity = "info" -> 1
          produced(r) == CHOOSE k \in 1..Len(dAlerts) :
                           /\ dAlerts[k] = r
                           /\ \A l \in 1..(k - 1) : dAlerts[l] # r
      IN \A i, j \in 1..Len(dResult) :
           i < j => /\ rank(dResult[i]) >= rank(dResult[j])
                    /\ rank(dResult[i]) = rank(dResult[j])
                         => produced(dResult[i]) < produced(dResult[j])

\* C10 witness: a call returned results of all three severities, two of them
\* critical.
C10_Witness ==
    /\ dPc = "done"
    /\ \E i, j \in 1..Len(dResult) :
         i # j /\ dResult[i].severity = "critical" /\ dResult[j].severity = "critical"
    /\ \E i \in 1..Len(dResult) : dResult[i].severity = "warning"
    /\ \E i \in 1..Len(dResult) : dResult[i].severity = "info"

\* C11: within one detectAnomalies call the passes end in the order AI,
\* rules, thresholds, trend, none starting before the one before it has
\* ended; the merged list exists only once all four have ended, and until
\* then the caller has received nothing.
C11_PassesInOrderThenMerge ==
    LET order == <<"ai", "rules", "thresholds", "pattern">>
        method(r) == CASE r.detectionMethod = "ai_analysis" -> "ai"
                       [] r.detectionMethod = "rule_based" -> "rules"
                       [] r.detectionMethod = "threshold" -> "thresholds"
                       [] r.detectionMethod = "pattern_analysis" -> "pattern"
    IN /\ Len(dPasses) <= Len(order)
       /\ \A i \in 1..Len(dPasses) : dPasses[i] = order[i]
       /\ dPc = "ai_wait" => (dPasses = <<>> /\ dAlerts = <<>>)
       /\ \A k \in 1..Len(dAlerts) : \E i \in 1..Len(dPasses) : dPasses[i] = method(dAlerts[k])
       /\ dPc = "done" => dPasses = order
       /\ dPc # "done" => dResult = <<>>

\* C11 witness: a call returned after each of the four passes had produced a
\* result.
C11_Witness ==
    /\ dPc = "done"
    /\ dResult # <<>>
    /\ \A m \in {"ai_analysis", "rule_based", "threshold", "pattern_analysis"} :
         \E k \in 1..Len(dAlerts) : dAlerts[k].detectionMethod = m

----------------------------------------------------------------------------
(* The notification service and the manual alert route (SpecNotify). *)

\* The channels of a list.
ChannelSet(list) == {list[i] : i \in 1..Len(list)}

\* C13: for the list of channels a dispatch was asked for, the channels chosen
\* for a critical alert contain those chosen for a warning alert, which
\* contain those chosen for an info alert; and the dispatch went to the
\* channels chosen for its severity.
C13_FanOutMonotone ==
    dispatch.severity \in Severities =>
        LET chosen(severity) ==
                ChannelSet(determineNotificationChannels(severity, dispatch.requested))
        IN /\ chosen("info") \subseteq chosen("warning")
           /\ chosen("warning") \subseteq chosen("critical")
           /\ ChannelSet(dispatch.channels) = chosen(dispatch.severity)

C13_Witness ==
    /\ dispatch.severity = "warning"
    /\ dispatch.requested = <<"websocket", "sms">>
    /\ ChannelSet(dispatch.channels) = {"websocket", "email", "push"}

\* C14: the channels of a dispatch always include dashboard and websocket,
\* include every channel the caller requested, and include email, sms and
\* push for a critical alert, email and push for a warning alert, push for
\* an info alert.
C14_ChannelsAsRequestedPlusSeverity ==
    dispatch.severity \in Severities =>
        /\ {"dashboard", "websocket"} \subseteq ChannelSet(dispatch.channels)
        /\ ChannelSet(dispatch.requested) \subseteq ChannelSet(dispatch.channels)
        /\ (CASE dispatch.severity = "critical" -> {"email", "sms", "push"}
              [] dispatch.severity = "warning" -> {"email", "push"}
              [] dispatch.severity = "info" -> {"push"})
             \subseteq ChannelSet(dispatch.channels)

\* C15: whichever sends of a dispatch throw, the dispatch attempts every send
\* it attempts when none throws (every chosen channel, every recipient of
\* the channel), and sendAlertNotification does not reject.
C15_FailuresAreIsolated ==
    [][dispatch' # dispatch =>
         /\ ~dispatch'.rejected
         /\ dispatch'.attempts =
              sendAlertNotification(DefaultRecipients, Connections(websocketConnections, sockets),
                                    dispatch'.severity,
                                    dispatch'.requested, {}).attempts]_vars

C15_Witness ==
    /\ dispatch.severity = "critical"
    /\ dispatch.requested = <<"dashboard", "websocket">>
    /\ dispatch.fails = FailPairs
    /\ ~dispatch.rejected
    /\ {a.channel : a \in ChannelSet(dispatch.attempts)} = {"dashboard", "websocket", "email", "sms", "push"}
    /\ Len(dispatch.attempts) = 7

\* C16: every send attempted by a dispatch, on whichever channel and whether
\* it succeeded or threw, has exactly one notification record, with its
\* channel, its recipient and the status sent or failed as the send went.
C16_EveryAttemptRecordedOnce ==
    \A a \in ChannelSet(dispatch.attempts) :
        LET entries == {i \in 1..Len(dispatch.records) :
                          /\ dispatch.records[i].channel = a.channel
                          /\ dispatch.records[i].recipient = a.recipient}
        IN /\ Cardinality(entries) = 1
           /\ \A i \in entries :
                dispatch.records[i].status =
                    IF <<a.channel, a.recipient>> \in dispatch.fails THEN "failed" ELSE "sent"

\* C18: a manual alert submission whose title or description is missing or
\* empty, whose type is not one of the six alert types, or whose severity is
\* given and is not info, warning or critical, is rejected before anything
\* changes: it adds no alert and dispatches no notification.
C18_InvalidManualAlertChangesNothing ==
    [][\A alertData \in ManualBodies, fails \in ManualFails :
         (/\ Manual(alertData, fails)
          /\ \/ alertData.title < 1
             \/ alertData.description < 1
             \/ alertData.type \notin {"consumption", "generation", "storage", "device_fault",
                                       "system_health", "anomaly"}
             \/ alertData.severity \notin {"info", "warning", "critical", Undefined})
         => /\ alerts' = alerts
            /\ dispatch' = dispatch
            /\ lastResponse'.code = 500]_vars

C18_Witness ==
    /\ lastResponse.route = "manual"
    /\ lastResponse.code = 500
    /\ lastResponse.seq = 2
    /\ Len(alerts) = 1
    /\ dispatch.alertId = alerts[1].id

\* C27: the dispatch made for an accepted manual alert goes to the channels
\* of the severity submitted with it: email, sms and push when it is
\* critical, email and push when it is warning.
C27_ManualAlertDispatchedBySeverity ==
    [][\A alertData \in ManualBodies, fails \in ManualFails :
         (Manual(alertData, fails) /\ lastResponse'.code = 200) =>
            /\ alertData.severity = "critical" =>
                  {"email", "sms", "push"} \subseteq ChannelSet(dispatch'.channels)
            /\ alertData.severity = "warning" =>
                  {"email", "push"} \subseteq ChannelSet(dispatch'.channels)]_vars

----------------------------------------------------------------------------
(* The websocket connection map (SpecSockets). *)

\* The socket registered last under userId, 0 when there is none.
LatestSocketOf(userId) ==
    LET own == {0} \cup {k \in 1..Len(sockets) : sockets[k].userId = userId}
    IN CHOOSE k \in own : \A j \in own : j <= k

\* C26: after any addWebSocketConnection calls and close events, every user
\* whose most recently registered socket has not closed has that socket in
\* the connection map (so a socket registered on reconnection stays in the
\* map when the older socket of the same user closes).
C26_LatestOpenSocketStaysRegistered ==
    \A u \in SocketOwners :
        (LatestSocketOf(u) # 0 /\ sockets[LatestSocketOf(u)].readyState # "CLOSED") =>
            \E i \in 1..Len(websocketConnections) :
                /\ websocketConnections[i].id = u
                /\ websocketConnections[i].socket = LatestSocketOf(u)

----------------------------------------------------------------------------
(* The simulate route and the requests in flight (Spec). *)

\* C17: a simulate request that is answered adds an alert to the store if and
\* only if its detection reported an anomaly, and then exactly one; when the
\* consumption of the new reading is above 300 the alert added is active and
\* has the type "consumption".
C17_SimulateCreatesConsumptionAlert ==
    [][(lastResponse' # lastResponse /\ lastResponse'.route = "simulate" /\ lastResponse'.code = 200) =>
         /\ IF lastResponse'.anomaly
            THEN /\ Len(alerts') = Len(alerts) + 1
                 /\ SubSeq(alerts', 1, Len(alerts)) = alerts
            ELSE alerts' = alerts
         /\ (lastResponse'.anomaly /\ MapGet(energyMetrics', lastResponse'.id).consumption > 300) =>
                /\ Status(alerts'[Len(alerts')]) = "active"
                /\ alerts'[Len(alerts')].type = "consumption"]_vars

\* C19: the store mutations of one request are not interleaved with those of
\* another: when a simulate request comes back from its analysis and creates
\* its anomaly and its alert, the reading it persisted is still the last
\* mutation of the metric store (no other request has persisted a reading in
\* between).
C19_NoInterleavedMutations ==
    [][(Len(inflight') < Len(inflight) /\ lastResponse'.anomaly) =>
         \A i \in 1..Len(inflight) :
            inflight[i].metricId = lastResponse'.id => Len(energyMetrics) = inflight[i].metricId]_vars

\* C20: every analysis that waits for the language model eventually returns:
\* a simulate request suspended in analyzeEnergyPattern is eventually
\* answered, whether or not the language model answers.
C20_AnalyzeEventuallyReturns == (inflight # <<>>) ~> (inflight = <<>>)

----------------------------------------------------------------------------
(* The passes of the detection engine, one by one (SpecDetect). *)

\* C21: the language model is asked only after the rule-based detector found
\* nothing in the latest reading: while a call waits for the language model,
\* and whenever an answer of it was taken, the window is not empty and its
\* latest reading violates none of the four fixed thresholds.
C21_AIOnlyAfterRulesFoundNothing ==
    (dPc = "ai_wait" \/ dAi # NotAsked) =>
        /\ Len(dWindow) > 0
        /\ ~dRule.isAnomaly
        /\ dWindow[Len(dWindow)].consumption <= 300
        /\ dWindow[Len(dWindow)].storage >= 5
        /\ dWindow[Len(dWindow)].solarEfficiency >= 50
        /\ dWindow[Len(dWindow)].batteryHealth >= 85

C21_Witness ==
    /\ dPc = "ai_wait"
    /\ Len(dWindow) = 10
    /\ dWindow[Len(dWindow)].consumption = 260

\* C22: whatever object the language model answered, the result built from it
\* has a score within [0, 1], and an answer whose type or severity is absent
\* or outside its enum is taken as no anomaly: it gives no AI detection
\* result.
C22_MalformedAnswerIsNoAnomaly ==
    (dAi # NotAsked /\ ~dAi.threw) =>
        /\ dAnalysis.value.score \in 0..100
        /\ (\/ dAi.reply.type \notin {"consumption", "generation", "storage", "device_fault"}
            \/ dAi.reply.severity \notin {"low", "medium", "high", "critical"})
           => /\ ~dAnalysis.value.isAnomaly
              /\ \A i \in 1..Len(dAlerts) : dAlerts[i].detectionMethod # "ai_analysis"

\* The results of the threshold pass among the results collected so far.
ThresholdResults == SelectSeq(dAlerts, LAMBDA a : a.detectionMethod = "threshold")

\* The results of the threshold pass with the given type and severity.
ThresholdResultsOf(type, severity) ==
    Len(SelectSeq(ThresholdResults, LAMBDA a : a.type = type /\ a.severity = severity))

\* C24: once the threshold pass has ended, it has given one result for each
\* violated check of the latest reading among consumption > 300 (critical),
\* storage < 10 (critical), solarEfficiency < 50 (warning) and
\* batteryHealth < 85 (warning), so as many results as checks violated, and
\* none for an empty window.
C24_ThresholdPassIsCumulative ==
    (\E i \in 1..Len(dPasses) : dPasses[i] = "thresholds") =>
        IF Len(dWindow) = 0 THEN Len(ThresholdResults) = 0
        ELSE LET latest == dWindow[Len(dWindow)]
                 one(violated) == IF violated THEN 1 ELSE 0
             IN /\ ThresholdResultsOf("consumption", "critical") = one(latest.consumption > 300)
                /\ ThresholdResultsOf("storage", "critical") = one(latest.storage < 10)
                /\ ThresholdResultsOf("generation", "warning") = one(latest.solarEfficiency < 50)
                /\ ThresholdResultsOf("device_fault", "warning") = one(latest.batteryHealth < 85)
                /\ Len(ThresholdResults) = one(latest.consumption > 300) + one(latest.storage < 10)
                                           + one(latest.solarEfficiency < 50)
                                           + one(latest.batteryHealth < 85)

C24_Witness ==
    /\ dPc = "pattern"
    /\ Len(dWindow) = 9
    /\ dWindow[9].consumption = 301 /\ dWindow[9].storage = 8
    /\ dWindow[9].solarEfficiency = 45 /\ dWindow[9].batteryHealth = 80
    /\ Len(ThresholdResults) = 4

\* The results of the trend pass among the results collected so far.
TrendResults == SelectSeq(dAlerts, LAMBDA a : a.detectionMethod = "pattern_analysis")

\* The warnings of the trend pass for the given type.
TrendWarnings(type) ==
    Len(SelectSeq(TrendResults, LAMBDA a : a.type = type /\ a.severity = "warning"))

\* (last - first) / first > 0.1 for the consumption of the window, and
\* (last - first) / first < -0.15 for its generation.  Readings are not
\* negative; a first reading of 0 makes the rate infinite when the last is
\* above it and never below -0.15.
ConsumptionRateAboveTenth(window) ==
    /\ Len(window) >= 2
    /\ LET first == window[1].consumption
           last == window[Len(window)].consumption
       IN IF first = 0 THEN last > 0 ELSE (last - first) * 10 > first

GenerationRateBelowMinusFifteenHundredths(window) ==
    /\ Len(window) >= 2
    /\ LET first == window[1].generation
           last == window[Len(window)].generation
       IN first # 0 /\ (last - first) * 100 < (0 - 15) * first

\* C25 as stated: whatever the length of the window, the trend pass gives a
\* consumption warning exactly when the rate of the consumption over the
\* window is above 0.1 and a generation warning exactly when the rate of the
\* generation is below -0.15.
C25_TrendWhateverTheLength ==
    dPc = "done" =>
        /\ TrendWarnings("consumption") = IF ConsumptionRateAboveTenth(dWindow) THEN 1 ELSE 0
        /\ TrendWarnings("generation") =
             IF GenerationRateBelowMinusFifteenHundredths(dWindow) THEN 1 ELSE 0
        /\ Len(TrendResults) = TrendWarnings("consumption") + TrendWarnings("generation")

\* C25 amended: for a window of at least ten readings the trend pass gives
\* these two warnings exactly under these two conditions; for a shorter
\* window it gives nothing.
C25_TrendFromTenReadings ==
    dPc = "done" =>
        IF Len(dWindow) < 10 THEN Len(TrendResults) = 0
        ELSE /\ TrendWarnings("consumption") = IF ConsumptionRateAboveTenth(dWindow) THEN 1 ELSE 0
             /\ TrendWarnings("generation") =
                  IF GenerationRateBelowMinusFifteenHundredths(dWindow) THEN 1 ELSE 0
             /\ Len(TrendResults) = TrendWarnings("consumption") + TrendWarnings("generation")

C25_Witness ==
    /\ dPc = "done"
    /\ Len(dWindow) = 10
    /\ dWindow[1].consumption = 200 /\ dWindow[10].consumption = 260
    /\ dWindow[1].generation = 100 /\ dWindow[10].generation = 50
    /\ Len(TrendResults) = 2

----------------------------------------------------------------------------
(* The configured-rule pass for any rule list (SpecRules). *)

\* The condition holds against the reading: its metric is one of the five of
\* a reading, its operator is one of the six comparisons, and the comparison
\* is true.
ConditionHolds(condition, reading) ==
    /\ condition.metric \in {"consumption", "generation", "storage", "solarEfficiency", "batteryHealth"}
    /\ LET value == CASE condition.metric = "consumption" -> reading.consumption
                      [] condition.metric = "generation" -> reading.generation
                      [] condition.metric = "storage" -> reading.storage
                      [] condition.metric = "solarEfficiency" -> reading.solarEfficiency
                      [] condition.metric = "batteryHealth" -> reading.batteryHealth
       IN \/ condition.operator = ">" /\ value > condition.value
          \/ condition.operator = "<" /\ value < condition.value
          \/ condition.operator = ">=" /\ value >= condition.value
          \/ condition.operator = "<=" /\ value <= condition.value
          \/ condition.operator = "==" /\ value = condition.value
          \/ condition.operator = "!=" /\ value # condition.value

\* The rule is enabled and all its conditions hold against the latest
\* reading of the window.
RuleHolds(rule, window) ==
    /\ rule.enabled
    /\ Len(window) > 0
    /\ \A c \in 1..Len(rule.conditions) : ConditionHolds(rule.conditions[c], window[Len(window)])

\* C23: the configured-rule pass returns exactly one result for every enabled
\* rule whose conditions all hold against the latest reading of the window,
\* and none for a rule that is disabled or has a condition that does not hold
\* (a condition on an unknown metric or with an unknown operator does not
\* hold); the readings before the latest play no part.
C23_OneResultPerHoldingRule ==
    dPasses = <<"rules">> =>
        /\ \A k \in 1..Len(rules) :
              Cardinality({i \in 1..Len(dAlerts) : dAlerts[i].ruleId = rules[k].id})
                = IF RuleHolds(rules[k], dWindow) THEN 1 ELSE 0
        /\ Len(dAlerts) = Cardinality({k \in 1..Len(rules) : RuleHolds(rules[k], dWindow)})

C23_Witness ==
    /\ dPasses = <<"rules">>
    /\ Len(dWindow) = 2
    /\ dWindow[2].consumption = 301 /\ dWindow[2].storage = 50
    /\ rules[1].id = "loaded-and-drained"
    /\ rules[2].id = "consumption-spike"
    /\ Len(dAlerts) = 1
    /\ dAlerts[1].ruleId = "consumption-spike"

----------------------------------------------------------------------------
(* The simulator's readings (SpecSimulator). *)

\* The fields of a reading other than storage.
OtherThanStorage(metric) ==
    <<metric.consumption, metric.generation, metric.gridExport, metric.solarEfficiency,
      metric.batteryHealth>>

\* C28: whatever calls of generateRealisticMetric and generateAnomalousMetric
\* came before, the normal reading of a call has its storage within 10 and 95
\* and its gridExport equal to max(0, generation - consumption); a
\* storage_drain reading has storage max(5, 0.2 x the normal storage) and the
\* normal reading's other fields, so that its storage is never below 5, the
\* value under which detectRuleBasedAnomalies reports storage.
C28_SimulatorReadings ==
    simulator.kind # "none" =>
        /\ simulator.normal.storage >= 10000 /\ simulator.normal.storage <= 95000
        /\ simulator.normal.gridExport
             = Max(0, simulator.normal.generation - simulator.normal.consumption)
        /\ simulator.kind = "normal" => simulator.returned = simulator.normal
        /\ simulator.kind = "storage_drain" =>
             /\ 5 * simulator.returned.storage = Max(25000, simulator.normal.storage)
             /\ OtherThanStorage(simulator.returned) = OtherThanStorage(simulator.normal)
             /\ ~(simulator.returned.storage < 5000)

\* A storage_drain reading drawn when storage had fallen to its floor of 10:
\* a fifth of it is 2, and the reading has 5.
C28_Witness ==
    /\ simulator.kind = "storage_drain"
    /\ simulator.normal.storage = 10000
    /\ simulator.returned.storage = 5000
    /\ simulator.calls = 2

----------------------------------------------------------------------------
(* The confirmation modal of the dashboard (SpecClient, SpecClientLive). *)

\* The alert is in the alerts list the notification system was given.
InAlertsList(id) == id \in Ids(propAlerts)

CriticalIds == {alert.id : alert \in {p \in AlertPool : p.type = "critical"}}

\* C29: every critical alert in the alerts list is in the end shown in the
\* confirmation modal, unless it has left the list by then; one that came
\* while the modal was open for another alert, or together with another,
\* is shown after the operator has closed the earlier modal.
C29_CriticalAlertEventuallyShown ==
    \A id \in CriticalIds : InAlertsList(id) ~> (id \in modalShown \/ ~InAlertsList(id))

\* C30: once the operator has acknowledged or dismissed the modal of a
\* critical alert, the modal does not open for that alert again while the
\* alert is in the alerts list.
C30_ClosedModalStaysClosed ==
    [][\A id \in CriticalIds :
          (dismissals[id] # "none" /\ InAlertsList(id) /\ modalAlert # id) => modalAlert' # id]_vars

====
